---- MODULE Spec2Model ----
(***************************************************************************)
(* A model of the ChaosChain TypeScript SDK: the x402 fee arithmetic and   *)
(* receipt scheme (X402Payment.ts), the SDK's cost estimate, the two-leg   *)
(* settlement of X402PaymentManager.ts, the storage fallback of            *)
(* AutoStorageManager and the paywall server X402Server.                   *)
(*                                                                         *)
(* Strings the code parses or formats are sequences of one-character       *)
(* strings, so that parsing and formatting are computed, not assumed.      *)
(* BigInt values are the model's integers; the inputs are chosen so that   *)
(* every intermediate value stays below 2^31.                              *)
(***************************************************************************)
EXTENDS Integers, Sequences, FiniteSets, TLC

VARIABLES
  feePercentage,   \* X402Payment.ts: this.feePercentage, in 1/PctScale percent
  feeCall          \* the last call of setFeePercentage or calculateTotalCost
                   \* (of the manager or of the SDK) with what it returned

VARIABLES
  receipt,         \* the PaymentReceipt object being passed around, or None
  altered,         \* the fields of receipt altered since it was signed
  verifyResult     \* what the last verifyReceipt(receipt) gave, or None

VARIABLES
  backends,          \* AutoStorageManager.backends, in list order
  preferredBackend,  \* AutoStorageManager.preferredBackend, or Null
  stored,            \* the uploads the backends hold: [provider, cid] records
  storageCall        \* the last put call: its input, attempts and result

VARIABLES
  server,          \* X402Server.server: Null, or the http.Server listening
  endpoints,       \* X402Server.endpoints: path -> endpoint config, or None
  paymentCache,    \* X402Server.paymentCache: identifier -> proof, or None
  requests         \* per connection, the request being handled or answered

VARIABLES
  payCall,         \* the executePayment call in progress or finished, or None
  submitted        \* the transactions that call has submitted, in order

VARIABLES
  sdk,             \* the ChaosChainSDK object: its config and what it built
  sdkCall          \* the last call of an x402 method of the SDK, or None

VARIABLES
  NETWORK_INFO,    \* utils/networks.ts: the table built when the module loads
  networkCall      \* the last lookup in the table with what it gave, or None

VARIABLES
  client,          \* the ERC8004Client: its signer and its contracts' runner
  clientCall,      \* the last operation of the client with its outcome
  sent             \* the calls that reached a contract, in order

VARIABLES
  stopCalls,       \* the promises stop() has returned, in call order
  liveServers      \* the http.Server objects created and not yet closed

VARIABLES
  integrity,       \* the ProcessIntegrity object and who made it, or None
  integrityCall    \* the executeWithProof call in progress or finished

feeVars == <<feePercentage, feeCall>>

sdkVars == <<sdk, sdkCall>>

networkVars == <<NETWORK_INFO, networkCall>>

clientVars == <<client, clientCall, sent>>

lifecycleVars == <<stopCalls, liveServers>>

integrityVars == <<integrity, integrityCall>>

otherVars == <<sdkVars, networkVars, clientVars, lifecycleVars, integrityVars>>

storageVars == <<backends, preferredBackend, stored, storageCall>>

receiptVars == <<receipt, altered, verifyResult>>

serverVars == <<server, endpoints, paymentCache, requests>>

payVars == <<payCall, submitted>>

vars == <<feeVars, receiptVars, storageVars, serverVars, payVars, otherVars>>

\* What the operations of one component leave alone.
notFee == <<receiptVars, storageVars, serverVars, payVars, otherVars>>

notReceipt == <<feeVars, storageVars, serverVars, payVars, otherVars>>

notStorage == <<feeVars, receiptVars, serverVars, payVars, otherVars>>

notServer == <<feeVars, receiptVars, storageVars, payVars, otherVars>>

notPay == <<feeVars, receiptVars, storageVars, serverVars, otherVars>>

core == <<feeVars, receiptVars, storageVars, serverVars, payVars>>

notSdk == <<feePercentage, receiptVars, storageVars, serverVars, networkVars, clientVars,
           lifecycleVars, integrityVars>>

notNetwork == <<core, sdkVars, clientVars, lifecycleVars, integrityVars>>

notClient == <<core, sdkVars, networkVars, lifecycleVars, integrityVars>>

notLifecycle == <<feeVars, receiptVars, storageVars, payVars, sdkVars, networkVars,
                 clientVars, integrityVars>>

notIntegrity == <<core, sdkVars, networkVars, clientVars, lifecycleVars>>

None == [kind |-> "none"]

----------------------------------------------------------------------------
(* Decimal strings                                                         *)

DigitChars == <<"0", "1", "2", "3", "4", "5", "6", "7", "8", "9">>

IsDigit(c) == \E i \in 1..10 : DigitChars[i] = c

DigitVal(c) == (CHOOSE i \in 1..10 : DigitChars[i] = c) - 1

RECURSIVE Pow10(_)
Pow10(n) == IF n = 0 THEN 1 ELSE 10 * Pow10(n - 1)

RECURSIVE DigitsToInt(_)
DigitsToInt(s) ==
  IF Len(s) = 0 THEN 0
  ELSE 10 * DigitsToInt(SubSeq(s, 1, Len(s) - 1)) + DigitVal(s[Len(s)])

RECURSIVE IntToDigits(_)
IntToDigits(n) ==
  IF n < 10 THEN <<DigitChars[n + 1]>>
  ELSE Append(IntToDigits(n \div 10), DigitChars[(n % 10) + 1])

RECURSIVE Zeros(_)
Zeros(n) == IF n <= 0 THEN <<>> ELSE <<"0">> \o Zeros(n - 1)

AllDigits(s) == \A i \in 1..Len(s) : IsDigit(s[i])

\* Position of the first "." of s, or Len(s) + 1 when there is none.
DotPos(s) ==
  IF \E i \in 1..Len(s) : s[i] = "."
  THEN CHOOSE i \in 1..Len(s) : s[i] = "." /\ \A j \in 1..(i - 1) : s[j] # "."
  ELSE Len(s) + 1

WholePart(s) == SubSeq(s, 1, DotPos(s) - 1)

FracPart(s) == SubSeq(s, DotPos(s) + 1, Len(s))

\* ethers.parseUnits(value, decimals) for a non-negative value: the string
\* must match ([0-9]*)\.?([0-9]*) with at least one digit; the fraction is
\* padded with zeros to `decimals` digits and may exceed them only by zeros.
ParseUnits(s, decimals) ==
  LET whole == WholePart(s)
      frac == FracPart(s)
      padded == frac \o Zeros(decimals - Len(frac))
      kept == SubSeq(padded, 1, decimals)
      extra == SubSeq(padded, decimals + 1, Len(padded))
  IN  IF ~(AllDigits(whole) /\ AllDigits(frac)) \/ Len(whole) + Len(frac) = 0
      THEN [ok |-> FALSE, value |-> 0]
      ELSE IF \E i \in 1..Len(extra) : extra[i] # "0"
      THEN [ok |-> FALSE, value |-> 0]
      ELSE [ok |-> TRUE, value |-> DigitsToInt(whole \o kept)]

RECURSIVE TrimWhole(_)
TrimWhole(s) ==
  IF Len(s) >= 2 /\ s[1] = "0" /\ s[2] # "." THEN TrimWhole(Tail(s)) ELSE s

RECURSIVE TrimFrac(_)
TrimFrac(s) ==
  IF Len(s) >= 2 /\ s[Len(s)] = "0" /\ s[Len(s) - 1] # "."
  THEN TrimFrac(SubSeq(s, 1, Len(s) - 1))
  ELSE s

\* ethers.formatUnits(value, decimals) for value >= 0 and decimals > 0: the
\* digits are left-padded to decimals + 1, the point inserted, and zeros
\* trimmed on both sides leaving one digit on each side of the point.
FormatUnits(v, decimals) ==
  LET str == IntToDigits(v)
      full == Zeros(decimals + 1 - Len(str)) \o str
      index == Len(full) - decimals
      dotted == SubSeq(full, 1, index) \o <<".">> \o SubSeq(full, index + 1, Len(full))
  IN  TrimFrac(TrimWhole(dotted))

\* <<q, r>> with a * m = q * d + r and 0 <= r < d, for a, m >= 0 and d > 0,
\* by doubling, so that no intermediate value exceeds 3 * max(q, d).
RECURSIVE MulDivQR(_, _, _)
MulDivQR(a, m, d) ==
  IF m = 0 THEN <<0, 0>>
  ELSE LET h == MulDivQR(a, m \div 2, d)
           q2 == 2 * h[1] + (m % 2) * (a \div d)
           r2 == 2 * h[2] + (m % 2) * (a % d)
       IN  <<q2 + (r2 \div d), r2 % d>>

----------------------------------------------------------------------------
(* Fee percentage and cost estimates                                       *)

\* Number of fractional digits of a fee percentage the model represents:
\* feePercentage p stands for p / PctScale percent.
PctDigits == 3

PctScale == Pow10(PctDigits)

\* The percentage num / den, e.g. Pct(25, 10) is 2.5 percent.
Pct(num, den) == (num * PctScale) \div den

\* X402Payment.ts constructor: feePercentage: number = 2.5
DefaultFeePercentage == Pct(25, 10)

\* The percentages setFeePercentage is called with: -1, just below 0, 0,
\* 0.005, 0.29, 2.5, 2.555, 5, 100, just above 100, 101.
FeeInputs ==
  {Pct(-1, 1), -1, 0, Pct(5, 1000), Pct(29, 100), Pct(25, 10), Pct(2555, 1000),
   Pct(5, 1), Pct(100, 1), Pct(100, 1) + 1, Pct(101, 1)}

\* setFeePercentage's guard: it throws when percentage < 0 || percentage > 100.
FeeOutOfRangeNoUpper(p) == p < 0

FeeOutOfRange(p) == p < 0 \/ p > Pct(100, 1)

\* BigInt(Math.floor(this.feePercentage * 100)), in exact arithmetic.
FeeBps(p) == (p * 100) \div PctScale

Decimals(currency) == IF currency = "ETH" THEN 18 ELSE 6

\* (amountBigInt * bps) / 10000n
FeeAmount(amountBigInt, bps) == MulDivQR(amountBigInt, bps, 10000)[1]

\* X402PaymentManager.calculateTotalCost(amount, currency) of X402Payment.ts
\* with this.feePercentage = pct.
CalculateTotalCost(amount, currency, pct) ==
  LET decimals == Decimals(currency)
      parsed == ParseUnits(amount, decimals)
      amountBigInt == parsed.value
      feeAmount == FeeAmount(amountBigInt, FeeBps(pct))
      totalAmount == amountBigInt + feeAmount
  IN  IF ~parsed.ok
      THEN [kind |-> "cost", amountIn |-> amount, currency |-> currency, pct |-> pct,
            outcome |-> "throw"]
      ELSE [kind |-> "cost", amountIn |-> amount, currency |-> currency, pct |-> pct,
            outcome |-> "ok",
            amountUnits |-> amountBigInt, feeUnits |-> feeAmount,
            totalUnits |-> totalAmount,
            amount |-> FormatUnits(amountBigInt, decimals),
            fee |-> FormatUnits(feeAmount, decimals),
            total |-> FormatUnits(totalAmount, decimals)]

\* parseFloat(amount) of a decimal string with at most six fraction digits,
\* as an exact number of millionths; NaN when no digit starts the string.
ParseFloatMicro(s) ==
  LET whole == WholePart(s)
      rest == FracPart(s)
      frac == SubSeq(rest, 1, DotPos(rest) - 1)
  IN  IF ~(AllDigits(whole) /\ AllDigits(frac)) \/ Len(whole) + Len(frac) = 0
      THEN [nan |-> TRUE, micro |-> 0]
      ELSE [nan |-> FALSE,
            micro |-> DigitsToInt(whole) * Pow10(6)
                        + DigitsToInt(frac \o Zeros(6 - Len(frac)))]

\* Number.prototype.toFixed(6) of micro / 10^6.
ToFixed6(micro) ==
  LET frac == IntToDigits(micro % Pow10(6))
  IN  IntToDigits(micro \div Pow10(6)) \o <<".">> \o Zeros(6 - Len(frac)) \o frac

\* The millionths toFixed(6) may round (q + r / 1000) millionths to: the
\* nearest, and either neighbour at an exact tie, where the double's last
\* bit decides.
RoundMicro(q, r) ==
  IF 2 * r < 1000 THEN {q} ELSE IF 2 * r > 1000 THEN {q + 1} ELSE {q, q + 1}

\* ChaosChainSDK.calculateTotalCost(amount, currency): the set of results
\* the floating-point computation can give.
SdkCalculateTotalCost(amount, currency) ==
  LET amountNum == ParseFloatMicro(amount)
      fee == MulDivQR(amountNum.micro, 25, 1000)
  IN  IF amountNum.nan
      THEN {[kind |-> "sdkCost", amountIn |-> amount, currency |-> currency,
             amount |-> <<"N", "a", "N">>, fee |-> <<"N", "a", "N">>,
             total |-> <<"N", "a", "N">>]}
      ELSE {[kind |-> "sdkCost", amountIn |-> amount, currency |-> currency,
             amount |-> ToFixed6(amountNum.micro),
             fee |-> ToFixed6(f),
             total |-> ToFixed6(amountNum.micro + t)] :
               f \in RoundMicro(fee[1], fee[2]), t \in RoundMicro(fee[1], fee[2])}

Str_10_0 == <<"1", "0", ".", "0">>
Str_0_25 == <<"0", ".", "2", "5">>
Str_10_25 == <<"1", "0", ".", "2", "5">>

\* Amounts with at most six fraction digits.
UsdcAmounts ==
  {Str_10_0, <<"5", ".", "0">>, <<"1", ".", "5">>, <<"1", "0">>, <<".", "5">>,
   <<"0", ".", "0", "0", "0", "3", "9", "9">>,
   <<"2", ".", "1", "2", "3", "4", "5", "6">>,
   <<"0", ".", "0", "0", "0", "5">>}

\* Amounts in wei range: 400 wei, 123456 wei, a whole number of gwei.
EthAmounts ==
  {Zeros(1) \o <<".">> \o Zeros(15) \o <<"4">>,
   Zeros(1) \o <<".">> \o Zeros(12) \o <<"1", "2", "3", "4", "5", "6">>,
   Zeros(1) \o <<".">> \o Zeros(8) \o <<"1">>}

\* Strings parseUnits rejects: empty, seven fraction digits, two points, a letter.
BadAmounts ==
  {<<>>, <<"1", ".", "1", "2", "3", "4", "5", "6", "7">>, <<"1", ".", "2", ".", "3">>,
   <<"a", "b", "c">>}

CostInputs ==
  [amount : UsdcAmounts \cup BadAmounts, currency : {"USDC", "DAI"}]
    \cup [amount : EthAmounts \cup {<<>>}, currency : {"ETH"}]

SdkInputs == [amount : UsdcAmounts \cup {<<>>, <<"a", "b", "c">>}, currency : {"USDC", "ETH"}]

FeeInit ==
  /\ feePercentage = DefaultFeePercentage
  /\ feeCall = None

\* X402PaymentManager.setFeePercentage(percentage)
SetFeePercentage ==
  \E p \in FeeInputs :
    /\ feeCall' = [kind |-> "set", arg |-> p, before |-> feePercentage,
                   outcome |-> IF FeeOutOfRange(p) THEN "throw" ELSE "ok"]
    /\ feePercentage' = IF FeeOutOfRange(p) THEN feePercentage ELSE p
    /\ UNCHANGED notFee

\* X402PaymentManager.getFeePercentage()
GetFeePercentage == feePercentage

\* a call of X402PaymentManager.calculateTotalCost
CalculateTotalCostCall ==
  \E in \in CostInputs :
    /\ feeCall' = CalculateTotalCost(in.amount, in.currency, feePercentage)
    /\ UNCHANGED <<feePercentage, notFee>>

\* a call of ChaosChainSDK.calculateTotalCost
SdkCalculateTotalCostCall ==
  \E in \in SdkInputs :
    \E r \in SdkCalculateTotalCost(in.amount, in.currency) :
      /\ feeCall' = r
      /\ UNCHANGED <<feePercentage, notFee>>

\* An argument the caller left out (undefined).
OmittedArg == "undefined"

DefaultDescription == "Payment required for service"

\* X402PaymentManager.createPaymentRequirements of X402Payment.ts.  The default
\* currency applies to an omitted argument only; description || default also
\* replaces the empty string.  signer.getAddress() is not awaited, so the
\* recipient is the pending promise, not the address.
X402RequirementsHeaderTrue(amount, currency, description, network) ==
  [statusCode |-> 402,
   headers |-> [contentType |-> "application/json", xPaymentRequired |-> "true"],
   body |-> [error |-> "Payment Required",
             paymentRequired |->
               [protocol |-> "x402", version |-> "1.0", amount |-> amount,
                currency |-> IF currency = OmittedArg THEN "USDC" ELSE currency,
                recipient |-> [kind |-> "Promise", of |-> "signer.getAddress()"],
                description |-> IF description \in {OmittedArg, ""}
                                THEN DefaultDescription ELSE description,
                network |-> network,
                methods |-> <<"crypto">>]]]

X402CreatePaymentRequirements(amount, currency, description, network) ==
  [statusCode |-> 402,
   headers |-> [contentType |-> "application/json", xPaymentRequired |-> "x402"],
   body |-> [error |-> "Payment Required",
             paymentRequired |->
               [protocol |-> "x402", version |-> "1.0", amount |-> amount,
                currency |-> IF currency = OmittedArg THEN "USDC" ELSE currency,
                recipient |-> [kind |-> "Promise", of |-> "signer.getAddress()"],
                description |-> IF description \in {OmittedArg, ""}
                                THEN DefaultDescription ELSE description,
                network |-> network,
                methods |-> <<"crypto">>]]]

\* The amount is not parsed, so any string is an input.
RequirementsInputs ==
  [amount : {<<"5", ".", "0">>, Str_10_0, <<>>, <<"a", "b", "c">>},
   currency : {"USDC", "ETH", "DAI", "", OmittedArg},
   description : {"Premium AI Analysis Service", "", OmittedArg},
   network : {"base-sepolia", "0g-testnet"}]

\* a call of X402PaymentManager.createPaymentRequirements (X402Payment.ts);
\* network is the manager's this.network, fixed at construction
X402CreatePaymentRequirementsCall ==
  \E in \in RequirementsInputs :
    /\ feeCall' = [kind |-> "requirements", input |-> in,
                   result |-> X402CreatePaymentRequirements(
                                in.amount, in.currency, in.description, in.network)]
    /\ UNCHANGED <<feePercentage, notFee>>

FeeNext ==
  \/ SetFeePercentage
  \/ CalculateTotalCostCall
  \/ SdkCalculateTotalCostCall
  \/ X402CreatePaymentRequirementsCall

----------------------------------------------------------------------------
(* Receipts: createReceipt, signReceipt, verifyReceipt of X402Payment.ts   *)

\* Signing keys and the account each controls.
Keys == {"k1", "k2"}

AccountOf(k) == IF k = "k1" THEN "acct1" ELSE "acct2"

\* An address string: the account it names and how its hex digits are cased.
Address(account, casing) == [account |-> account, casing |-> casing]

\* String.prototype.toLowerCase() on an address string.
ToLowerCase(a) == Address(a.account, "lower")

\* What ethers returns from getAddress and verifyMessage: the checksum casing.
ChecksumAddress(account) == Address(account, "checksum")

\* receipt.from of an object that has no such string.
Undefined == [kind |-> "undefined"]

\* signature: '' as createReceipt leaves it, and a string that is no signature.
EmptySignature == [kind |-> "empty"]

GarbageSignature == [kind |-> "garbage"]

\* ethers.keccak256(ethers.toUtf8Bytes(JSON.stringify(receiptData))): JSON and
\* hash are taken to be injective, the digest stands for the data hashed.
Keccak256Json(receiptData) == [kind |-> "keccak256", of |-> receiptData]

\* The template string of signReceipt and verifyReceipt:
\* `Payment Receipt\nID: ${paymentId}\nFrom: ${from}\nTo: ${to}\nAmount:
\* ${amount} ${currency}\nTx: ${txHash}`, as the sequence of its parts.
ReceiptMessage(r) ==
  <<"Payment Receipt", "ID", r.paymentId, "From", r.from, "To", r.to,
    "Amount", r.amount, r.currency, "Tx", r.txHash>>

\* signer.signMessage(message) with key k.
SignMessage(k, message) == [kind |-> "sig", key |-> k, message |-> message]

\* An address no receipt claims: what recovery yields for another message.
UnrelatedAddress == ChecksumAddress("unrelated")

\* ethers.verifyMessage(message, signature): throws on a string that is no
\* signature; recovers the signer's address when the signature is over this
\* message, and an unrelated address otherwise.
VerifyMessage(message, signature) ==
  IF signature.kind # "sig" THEN [threw |-> TRUE]
  ELSE IF signature.message = message
  THEN [threw |-> FALSE, address |-> ChecksumAddress(AccountOf(signature.key))]
  ELSE [threw |-> FALSE, address |-> UnrelatedAddress]

\* X402PaymentManager.createReceipt(payment)
CreateReceiptOf(payment) ==
  LET receiptData == [from |-> payment.from, to |-> payment.to,
                      amount |-> payment.amount, currency |-> payment.currency,
                      timestamp |-> payment.timestamp, txHash |-> payment.txHash]
  IN  [paymentId |-> Keccak256Json(receiptData),
       from |-> receiptData.from, to |-> receiptData.to,
       amount |-> receiptData.amount, currency |-> receiptData.currency,
       timestamp |-> receiptData.timestamp, txHash |-> receiptData.txHash,
       signature |-> EmptySignature]

\* X402PaymentManager.signReceipt(receipt) on a manager whose signer holds k.
SignReceiptOf(k, r) == [r EXCEPT !.signature = SignMessage(k, ReceiptMessage(r))]

\* recoveredAddress.toLowerCase() === receipt.from.toLowerCase()
SameAddressExact(recovered, from) == recovered = from

SameAddress(recovered, from) == ToLowerCase(recovered) = ToLowerCase(from)

\* The body of verifyReceipt's try block: "true", "false", or "throw" when
\* verifyMessage or receipt.from.toLowerCase() raises.
VerifyReceiptTry(r) ==
  LET recovered == VerifyMessage(ReceiptMessage(r), r.signature)
  IN  IF recovered.threw THEN "throw"
      ELSE IF r.from = Undefined THEN "throw"
      ELSE IF SameAddress(recovered.address, r.from) THEN "true" ELSE "false"

VerifyReceiptNoCatch(r) == VerifyReceiptTry(r)

\* X402PaymentManager.verifyReceipt(receipt): try { ... } catch { return false }
VerifyReceiptOf(r) ==
  LET result == VerifyReceiptTry(r)
  IN  IF result = "throw" THEN "false" ELSE result

Payments ==
  [from : {ChecksumAddress("acct1"), Address("acct1", "lower"), ChecksumAddress("acct2")},
   to : {ChecksumAddress("acct3")},
   amount : {Str_10_0},
   currency : {"USDC", "ETH"},
   timestamp : {1000, 2000},
   txHash : {"0xaa"}]

\* The values a field of a receipt can be overwritten with.
FieldValues(f) ==
  CASE f = "paymentId" -> {Keccak256Json([from |-> Undefined])}
    [] f = "from" -> {ChecksumAddress("acct1"), Address("acct1", "lower"),
                      ChecksumAddress("acct2"), Undefined}
    [] f = "to" -> {ChecksumAddress("acct3"), ChecksumAddress("acct2")}
    [] f = "amount" -> {Str_10_0, <<"5", ".", "0">>}
    [] f = "currency" -> {"USDC", "ETH"}
    [] f = "timestamp" -> {1000, 2000}
    [] f = "txHash" -> {"0xaa", "0xbb"}
    [] f = "signature" -> {EmptySignature, GarbageSignature}

ReceiptFields ==
  {"paymentId", "from", "to", "amount", "currency", "timestamp", "txHash", "signature"}

ReceiptInit ==
  /\ receipt = None
  /\ altered = {}
  /\ verifyResult = None

\* receipt = manager.createReceipt(payment)
CreateReceipt ==
  \E payment \in Payments :
    /\ receipt' = CreateReceiptOf(payment)
    /\ altered' = {}
    /\ verifyResult' = None
    /\ UNCHANGED notReceipt

\* receipt = await manager.signReceipt(receipt), the manager's signer holding k
SignReceipt ==
  \E k \in Keys :
    /\ receipt # None
    /\ receipt.from # Undefined
    /\ receipt' = SignReceiptOf(k, receipt)
    /\ altered' = {}
    /\ verifyResult' = None
    /\ UNCHANGED notReceipt

\* A holder of the receipt object overwrites one of its fields.
AlterReceipt ==
  \E f \in ReceiptFields :
    \E v \in FieldValues(f) :
      /\ receipt # None
      /\ altered = {}
      /\ v # receipt[f]
      /\ receipt' = [receipt EXCEPT ![f] = v]
      /\ altered' = {f}
      /\ verifyResult' = None
      /\ UNCHANGED notReceipt
    /\ UNCHANGED notReceipt

\* await manager.verifyReceipt(receipt)
VerifyReceipt ==
  /\ receipt # None
  /\ verifyResult = None
  /\ verifyResult' = [kind |-> "verified", value |-> VerifyReceiptOf(receipt)]
  /\ UNCHANGED <<receipt, altered, notReceipt>>

ReceiptNext == CreateReceipt \/ SignReceipt \/ AlterReceipt \/ VerifyReceipt

----------------------------------------------------------------------------
(* Storage: AutoStorageManager of StorageBackends.ts                       *)

\* preferredBackend: StorageBackend | null = null
Null == "null"

\* The environments the constructor can find: each of PINATA_JWT,
\* IRYS_WALLET_KEY and ZEROG_TESTNET_PRIVATE_KEY set or not.
Environments == [pinata : BOOLEAN, irys : BOOLEAN, zerog : BOOLEAN]

\* detectAvailableBackends(): LocalIPFSStorage is always constructed and
\* pushed first; the others follow when their variable is set.
DetectedBackends(env) ==
  <<"local-ipfs">>
    \o (IF env.pinata THEN <<"pinata">> ELSE <<>>)
    \o (IF env.irys THEN <<"irys">> ELSE <<>>)
    \o (IF env.zerog THEN <<"0g-storage">> ELSE <<>>)

\* The first backend pushed becomes preferredBackend; null with no backend.
DetectedPreferred(env) ==
  IF Len(DetectedBackends(env)) = 0 THEN Null ELSE DetectedBackends(env)[1]

\* What the uploads of one put call do, per backend: LocalIPFSStorage.put and
\* PinataStorage.put post to a server and succeed or throw a StorageError;
\* IrysStorage.put and ZeroGStorage.put make up an identifier and return.
PutOutcomes ==
  {o \in [{"local-ipfs", "pinata", "irys", "0g-storage"} -> {"ok", "fail"}] :
     o["irys"] = "ok" /\ o["0g-storage"] = "ok"}

DataItems == {"d1", "d2"}

\* The StorageResult backend b returns for data.
StorageResultOf(b, data) ==
  [kind |-> "result", cid |-> <<b, data>>, provider |-> b]

\* new StorageError(message): the message names the error it wraps.
StorageErrorOf(message, cause) ==
  [kind |-> "StorageError", message |-> message, cause |-> cause]

\* A fallback loop that does not skip the preferred backend.
RECURSIVE FallbackLoopRetrying(_, _, _, _)
FallbackLoopRetrying(rest, preferred, outcome, data) ==
  IF Len(rest) = 0 THEN <<<<>>, None>>
  ELSE IF outcome[Head(rest)] = "ok"
  THEN <<<<Head(rest)>>, StorageResultOf(Head(rest), data)>>
  ELSE LET more == FallbackLoopRetrying(Tail(rest), preferred, outcome, data)
       IN  <<<<Head(rest)>> \o more[1], more[2]>>

\* The fallback loop of put: for (const backend of this.backends) skipping
\* the preferred one, returning the first upload that succeeds. The result
\* is <<backends attempted, StorageResult or None when all of them threw>>.
RECURSIVE FallbackLoop(_, _, _, _)
FallbackLoop(rest, preferred, outcome, data) ==
  IF Len(rest) = 0 THEN <<<<>>, None>>
  ELSE IF Head(rest) = preferred
  THEN FallbackLoop(Tail(rest), preferred, outcome, data)
  ELSE IF outcome[Head(rest)] = "ok"
  THEN <<<<Head(rest)>>, StorageResultOf(Head(rest), data)>>
  ELSE LET more == FallbackLoop(Tail(rest), preferred, outcome, data)
       IN  <<<<Head(rest)>> \o more[1], more[2]>>

\* A put whose catch block rethrows at once, with no fallback loop.
PutOfNoFallback(list, preferred, outcome, data) ==
  IF preferred = Null
  THEN [attempts |-> <<>>,
        result |-> StorageErrorOf("No storage backends available", Null)]
  ELSE IF outcome[preferred] = "ok"
  THEN [attempts |-> <<preferred>>, result |-> StorageResultOf(preferred, data)]
  ELSE [attempts |-> <<preferred>>,
        result |-> StorageErrorOf("All storage backends failed", preferred)]

\* A put whose terminal error wraps the error of the last backend attempted.
PutOfLastError(list, preferred, outcome, data) ==
  IF preferred = Null
  THEN [attempts |-> <<>>,
        result |-> StorageErrorOf("No storage backends available", Null)]
  ELSE IF outcome[preferred] = "ok"
  THEN [attempts |-> <<preferred>>, result |-> StorageResultOf(preferred, data)]
  ELSE LET fallback == FallbackLoop(list, preferred, outcome, data)
           attempts == <<preferred>> \o fallback[1]
       IN  [attempts |-> attempts,
            result |-> IF fallback[2] # None THEN fallback[2]
                       ELSE StorageErrorOf("All storage backends failed",
                                           attempts[Len(attempts)])]

\* AutoStorageManager.put(data, mime): the attempts it makes and what it
\* returns or throws.
PutOf(list, preferred, outcome, data) ==
  IF preferred = Null
  THEN [attempts |-> <<>>,
        result |-> StorageErrorOf("No storage backends available", Null)]
  ELSE IF outcome[preferred] = "ok"
  THEN [attempts |-> <<preferred>>, result |-> StorageResultOf(preferred, data)]
  ELSE LET fallback == FallbackLoop(list, preferred, outcome, data)
       IN  [attempts |-> <<preferred>> \o fallback[1],
            result |-> IF fallback[2] # None THEN fallback[2]
                       ELSE StorageErrorOf("All storage backends failed", preferred)]

\* The Buffer backend b returns for cid.
BufferOf(b, cid) == [kind |-> "buffer", cid |-> cid, provider |-> b]

\* A get that goes on to the other backends when the preferred one throws.
GetOfWithFallback(list, preferred, cid, answer) ==
  IF preferred = Null
  THEN [attempts |-> <<>>,
        result |-> StorageErrorOf("No storage backends available", Null)]
  ELSE IF answer = "ok"
  THEN [attempts |-> <<preferred>>, result |-> BufferOf(preferred, cid)]
  ELSE IF Len(list) > 1
  THEN [attempts |-> <<preferred, list[2]>>, result |-> BufferOf(list[2], cid)]
  ELSE [attempts |-> <<preferred>>,
        result |-> StorageErrorOf("Failed to retrieve", preferred)]

\* AutoStorageManager.get(cid): return await this.preferredBackend.get(cid).
\* answer is what the preferred backend's server does with the request.
GetOf(list, preferred, cid, answer) ==
  IF preferred = Null
  THEN [attempts |-> <<>>,
        result |-> StorageErrorOf("No storage backends available", Null)]
  ELSE IF answer = "ok"
  THEN [attempts |-> <<preferred>>, result |-> BufferOf(preferred, cid)]
  ELSE [attempts |-> <<preferred>>,
        result |-> StorageErrorOf("Failed to retrieve", preferred)]

\* The content identifiers a caller asks for: those of earlier uploads and
\* one that no backend holds.
CidInputs == {u.cid : u \in stored} \cup {<<"none", "d1">>}

\* new AutoStorageManager() in environment env
StorageInitIn(env) ==
  /\ backends = DetectedBackends(env)
  /\ preferredBackend = DetectedPreferred(env)
  /\ stored = {}
  /\ storageCall = None

StorageInit == \E env \in Environments : StorageInitIn(env)

\* The manager of a process with none of the three variables set.
StorageAtRest == StorageInitIn([pinata |-> FALSE, irys |-> FALSE, zerog |-> FALSE])

\* await manager.put(data, mime)
Put ==
  \E data \in DataItems, outcome \in PutOutcomes :
    LET call == PutOf(backends, preferredBackend, outcome, data)
    IN  /\ storageCall' = [kind |-> "put", data |-> data, outcome |-> outcome,
                           attempts |-> call.attempts, result |-> call.result]
        /\ stored' = IF call.result.kind = "result"
                     THEN stored \cup {[provider |-> call.result.provider,
                                        cid |-> call.result.cid]}
                     ELSE stored
        /\ UNCHANGED <<backends, preferredBackend, notStorage>>

\* await manager.get(cid)
Get ==
  \E cid \in CidInputs, answer \in {"ok", "fail"} :
    LET call == GetOf(backends, preferredBackend, cid, answer)
    IN  /\ storageCall' = [kind |-> "get", cid |-> cid, answer |-> answer,
                           attempts |-> call.attempts, result |-> call.result]
        /\ UNCHANGED <<backends, preferredBackend, stored, notStorage>>

StorageNext == Put \/ Get

----------------------------------------------------------------------------
(* Paywall server: X402Server of X402Server.ts, with the verifyPayment and  *)
(* createPaymentRequirements of the X402PaymentManager it is given         *)

\* A header value: the string, and what verifyPayment reads from it,
\* startsWith('0x') and length.
HeaderString(text, prefix0x, length) ==
  [text |-> text, prefix0x |-> prefix0x, length |-> length]

\* Two strings that look like transaction hashes.
TxA == HeaderString("0xaa..a", TRUE, 66)

TxB == HeaderString("0xbb..b", TRUE, 66)

\* An address: 0x-prefixed but 42 characters.
ShortHex == HeaderString("0xcc..c", TRUE, 42)

\* 66 characters without the prefix.
OpaqueToken == HeaderString("token", FALSE, 66)

EmptyString == HeaderString("", FALSE, 0)

\* The strings a Map of the server can have as a key.
Identifiers == {TxA, TxB, ShortHex, OpaqueToken}

\* !value of a header: absent, or the empty string.
Falsy(h) == IF h = Undefined THEN TRUE ELSE h.length = 0

\* req.headers['x-payment-token'] and req.headers['x-payment-tx']
HeaderPairs ==
  { [token |-> Undefined, tx |-> Undefined],
    [token |-> EmptyString, tx |-> Undefined],
    [token |-> OpaqueToken, tx |-> TxA],
    [token |-> TxB, tx |-> Undefined],
    [token |-> Undefined, tx |-> TxA],
    [token |-> Undefined, tx |-> TxB],
    [token |-> Undefined, tx |-> ShortHex] }

\* paymentToken || paymentTxHash
PaymentIdentifier(h) == IF ~Falsy(h.token) THEN h.token ELSE h.tx

\* req.url: the path of a registered handler, another path, and a request
\* target that new URL(req.url, `http://${req.headers.host}`) rejects.
UnparsableTarget == "//"

RequestTargets == {"/getData", "/missing", UnparsableTarget}

\* The keys this.endpoints is asked for.
Paths == RequestTargets \ {UnparsableTarget}

\* new URL(...) throws a TypeError for a target that is no URL.
UrlParses(target) == target # UnparsableTarget

\* url.pathname
Pathname(target) == target

\* Request bodies: none, a JSON document, and text that is not JSON.
JsonBody == "{\"q\":1}"

MalformedBody == "{q"

Bodies == {"", JsonBody, MalformedBody}

\* {}
EmptyObject == [kind |-> "object", text |-> "{}"]

\* body ? JSON.parse(body) : {}
JsonParseBody(body) ==
  IF body = "" THEN [ok |-> TRUE, value |-> EmptyObject]
  ELSE IF body = MalformedBody
  THEN [ok |-> FALSE, message |-> "Unexpected token q in JSON at position 1"]
  ELSE [ok |-> TRUE, value |-> [kind |-> "object", text |-> body]]

\* A body parse that swallows the SyntaxError and passes {} on.
RequestDataLenient(method, body) ==
  IF method \in {"POST", "PUT"} /\ JsonParseBody(body).ok
  THEN JsonParseBody(body)
  ELSE [ok |-> TRUE, value |-> EmptyObject]

\* let requestData = {}; the body is read and parsed for POST and PUT only.
RequestData(method, body) ==
  IF method \in {"POST", "PUT"}
  THEN JsonParseBody(body)
  ELSE [ok |-> TRUE, value |-> EmptyObject]

\* The requests a client sends; a GET carries no body.
RequestInputs ==
  {i \in [target : RequestTargets, headers : HeaderPairs,
          method : {"GET", "POST"}, body : Bodies] :
     i.method = "GET" => i.body = ""}

\* The connections the server is handling requests on.
Connections == {"c1"}

\* Two connections, for requests that are outstanding at the same time.
ConcurrentConnections == {"c1", "c2"}

\* The requests sent on them: a GET and a POST without a body that pay with
\* the same transaction hash.
ConcurrentInputs ==
  {i \in RequestInputs :
     /\ i.body = ""
     /\ i.target = "/getData"
     /\ i.headers = [token |-> Undefined, tx |-> TxA]}

\* The cap on the calls of stop() in a run.
MaxStops == 2

\* Handlers by function name; what a call of one does.
Handlers == {"getData"}

HandlerOutcomes == {"return", "throw"}

HandlerResult(handler, requestData) ==
  [kind |-> "result", handler |-> handler, of |-> requestData]

HandlerErrorMessage == "handler failed"

\* config.defaultCurrency || 'USDC'
DefaultCurrency == "USDC"

\* requirePayment(amount, description, currency): currency may be left out,
\* which the model writes as the empty string, falsy as well.
RegisterInputs ==
  { [amount |-> 1, currency |-> ""],
    [amount |-> 2, currency |-> ""],
    [amount |-> 2, currency |-> "ETH"] }

\* const path = `/${handler.name || 'endpoint'}`
PathOf(handler) == IF handler = "" THEN "/endpoint" ELSE "/" \o handler

EndpointConfigOf(amount, description, currency, handler) ==
  [path |-> PathOf(handler),
   amount |-> amount,
   currency |-> IF currency = "" THEN DefaultCurrency ELSE currency,
   description |-> description,
   handler |-> handler]

ZeroAddress == Address("0x0000000000000000000000000000000000000000", "lower")

OtherAddress == ChecksumAddress("acct2")

\* this.wallet.address of the payment manager
WalletAddress == ChecksumAddress("acct1")

\* X402PaymentManager.createPaymentRequirements; expires_at, a time of day,
\* is left out.
CreatePaymentRequirements(amount, currency, serviceDescription) ==
  [amount |-> amount,
   currency |-> currency,
   service_description |-> serviceDescription,
   settlement_address |-> WalletAddress,
   network |-> "base-sepolia",
   protocol_version |-> "x402-v1.0",
   payment_endpoint |-> <<"x402://pay/", WalletAddress>>]

JsonHeaders == [contentType |-> "application/json"]

\* res.writeHead(status, {'Content-Type': 'application/json'});
\* res.end(JSON.stringify({ error: message }))
ErrorResponse(status, message) ==
  [status |-> status, headers |-> JsonHeaders, body |-> [error |-> message]]

\* res.end(JSON.stringify({ success: true, data: result }))
SuccessResponse(result) ==
  [status |-> 200, headers |-> JsonHeaders,
   body |-> [success |-> TRUE, data |-> result]]

\* sendPaymentRequired(res, endpointConfig)
PaymentRequiredResponse(ep) ==
  LET paymentRequirements ==
        CreatePaymentRequirements(ep.amount, ep.currency, ep.description)
  IN  [status |-> 402,
       headers |-> [contentType |-> "application/json",
                    xPaymentRequired |-> "true",
                    xPaymentAmount |-> IntToDigits(ep.amount),
                    xPaymentCurrency |-> ep.currency,
                    xPaymentAddress |-> paymentRequirements.settlement_address],
       body |-> [error |-> "Payment Required",
                 payment_required |-> TRUE,
                 payment_requirements |-> paymentRequirements,
                 instructions |->
                   [step_1 |-> "Execute payment using x402 protocol",
                    step_2 |-> "Include payment transaction hash in X-Payment-Tx header",
                    step_3 |-> "Retry request with payment proof"]]]

\* The proof verifyPayment makes up for an identifier; timestamp, a time of
\* day, is left out.
MockProofOf(id, ep) ==
  [payment_id |-> id,
   transaction_hash |-> id,
   main_transaction_hash |-> id,
   from_address |-> ZeroAddress,
   to_address |-> ZeroAddress,
   treasury_address |-> ZeroAddress,
   amount |-> ep.amount,
   currency |-> ep.currency,
   protocol_fee |-> 0,
   network |-> "base-sepolia",
   chain_id |-> 84532,
   status |-> "confirmed",
   confirmations |-> 1]

\* What the provider answers about a transaction hash: getTransactionReceipt
\* throws, gives null or a receipt with a status; getTransaction throws,
\* gives null or a transaction with a to address (none when it deploys).
ChainViews ==
  { [receipt |-> "throws", tx |-> [kind |-> "throws"]],
    [receipt |-> "null", tx |-> [kind |-> "null"]],
    [receipt |-> "status0", tx |-> [kind |-> "tx", to |-> ZeroAddress]],
    [receipt |-> "status1", tx |-> [kind |-> "throws"]],
    [receipt |-> "status1", tx |-> [kind |-> "null"]],
    [receipt |-> "status1", tx |-> [kind |-> "tx", to |-> Undefined]],
    [receipt |-> "status1", tx |-> [kind |-> "tx", to |-> OtherAddress]],
    [receipt |-> "status1", tx |-> [kind |-> "tx", to |-> ZeroAddress]] }

\* X402PaymentManager.verifyPayment(paymentProof)
ManagerVerifyPayment(view, paymentProof) ==
  IF view.receipt = "throws" THEN FALSE
  ELSE IF view.receipt = "null" THEN FALSE
  ELSE IF view.receipt # "status1" THEN FALSE
  ELSE IF view.tx.kind = "throws" THEN FALSE
  ELSE IF view.tx.kind = "null" THEN FALSE
  ELSE IF view.tx.to = Undefined THEN FALSE
  ELSE ToLowerCase(view.tx.to) = ToLowerCase(paymentProof.to_address)

\* A cache check that takes any cached proof of the identifier.
CacheHitAnyProof(cache, id, ep) == cache[id] # None

\* cachedPayment && cachedPayment.amount >= endpointConfig.amount
\*               && cachedPayment.currency === endpointConfig.currency
CacheHit(cache, id, ep) ==
  IF cache[id] = None THEN FALSE
  ELSE cache[id].amount >= ep.amount /\ cache[id].currency = ep.currency

\* paymentIdentifier.startsWith('0x') && paymentIdentifier.length === 66
LooksLikeTxHash(id) == id.prefix0x /\ id.length = 66

\* A request as handleRequest sees it when it is called.
NewRequest(input) ==
  [input |-> input,
   pc |-> "start",
   endpoint |-> None,
   identifier |-> Undefined,
   verified |-> "none",
   handlerCalls |-> 0,
   handlerOutcome |-> "none",
   responses |-> <<>>]

\* res.writeHead(...); res.end(...): the request is answered.
Respond(r, response) ==
  [r EXCEPT !.pc = "done", !.responses = Append(@, response)]

\* The try block of handleRequest once the body has arrived: parse it, call
\* the handler, answer 200, or 500 with the message of what was thrown.
Execute(r, outcome) ==
  LET requestData == RequestData(r.input.method, r.input.body)
  IN  IF ~requestData.ok
      THEN Respond(r, ErrorResponse(500, requestData.message))
      ELSE LET called == [r EXCEPT !.handlerCalls = @ + 1,
                                   !.handlerOutcome = outcome]
           IN  IF outcome = "throw"
               THEN Respond(called, ErrorResponse(500, HandlerErrorMessage))
               ELSE Respond(called,
                      SuccessResponse(HandlerResult(r.endpoint.handler,
                                                    requestData.value)))

\* A handleRequest that goes on to the handler whatever verifyPayment gave.
AfterVerifyUnchecked(r, isValidPayment, outcome) ==
  LET v == [r EXCEPT !.verified = IF isValidPayment THEN "true" ELSE "false"]
  IN  IF v.input.method \in {"POST", "PUT"}
      THEN [v EXCEPT !.pc = "body"]
      ELSE Execute(v, outcome)

\* handleRequest from the point verifyPayment has resolved: 402 for a payment
\* that is not valid; else wait for the body of a POST or PUT, or go on.
AfterVerify(r, isValidPayment, outcome) ==
  LET v == [r EXCEPT !.verified = IF isValidPayment THEN "true" ELSE "false"]
  IN  IF ~isValidPayment
      THEN Respond(v, ErrorResponse(402, "Invalid or insufficient payment"))
      ELSE IF v.input.method \in {"POST", "PUT"}
      THEN [v EXCEPT !.pc = "body"]
      ELSE Execute(v, outcome)

\* A verifyPayment that turns down an identifier whose cached proof does not
\* fit the endpoint, without asking the chain.
ReceiveRejectingUnfit(input, eps, cache, outcome) ==
  LET r == NewRequest(input)
  IN  IF ~UrlParses(input.target)
      THEN Respond(r, ErrorResponse(500, "Internal server error"))
      ELSE IF eps[Pathname(input.target)] = None
      THEN Respond(r, ErrorResponse(404, "Endpoint not found"))
      ELSE LET ep == eps[Pathname(input.target)]
               atEndpoint == [r EXCEPT !.endpoint = ep]
           IN  IF Falsy(input.headers.token) /\ Falsy(input.headers.tx)
               THEN Respond(atEndpoint, PaymentRequiredResponse(ep))
               ELSE LET id == PaymentIdentifier(input.headers)
                        paying == [atEndpoint EXCEPT !.identifier = id]
                    IN  IF CacheHit(cache, id, ep)
                        THEN AfterVerify(paying, TRUE, outcome)
                        ELSE IF LooksLikeTxHash(id) /\ cache[id] = None
                        THEN [paying EXCEPT !.pc = "verifying"]
                        ELSE AfterVerify(paying, FALSE, outcome)

\* handleRequest from its call to its first suspension: the URL (a throw is
\* answered by the catch of start()), the endpoint, the headers, and
\* verifyPayment up to the chain lookup.
Receive(input, eps, cache, outcome) ==
  LET r == NewRequest(input)
  IN  IF ~UrlParses(input.target)
      THEN Respond(r, ErrorResponse(500, "Internal server error"))
      ELSE IF eps[Pathname(input.target)] = None
      THEN Respond(r, ErrorResponse(404, "Endpoint not found"))
      ELSE LET ep == eps[Pathname(input.target)]
               atEndpoint == [r EXCEPT !.endpoint = ep]
           IN  IF Falsy(input.headers.token) /\ Falsy(input.headers.tx)
               THEN Respond(atEndpoint, PaymentRequiredResponse(ep))
               ELSE LET id == PaymentIdentifier(input.headers)
                        paying == [atEndpoint EXCEPT !.identifier = id]
                    IN  IF CacheHit(cache, id, ep)
                        THEN AfterVerify(paying, TRUE, outcome)
                        ELSE IF LooksLikeTxHash(id)
                        THEN [paying EXCEPT !.pc = "verifying"]
                        ELSE AfterVerify(paying, FALSE, outcome)

\* new X402Server(paymentManager, config)
ServerInit ==
  /\ server = Null
  /\ endpoints = [p \in Paths |-> None]
  /\ paymentCache = [id \in Identifiers |-> None]
  /\ requests = [c \in Connections |-> None]

\* A connection is free when nothing was asked on it yet or its request was
\* answered.
IsFree(c) == IF requests[c] = None THEN TRUE ELSE requests[c].pc = "done"

\* A start() that makes a server whatever the field holds.
StartAlways ==
  /\ server' = "listening"
  /\ liveServers' = liveServers + 1
  /\ UNCHANGED <<endpoints, paymentCache, requests, stopCalls, notLifecycle>>

\* start(): warns and returns when this.server is set; else makes the
\* http.Server and has it listen.  A server that close() was called on stays
\* in the field, and is written "closing".
Start ==
  /\ IF server # Null
     THEN UNCHANGED <<server, liveServers>>
     ELSE /\ server' = "listening"
          /\ liveServers' = liveServers + 1
  /\ UNCHANGED <<endpoints, paymentCache, requests, stopCalls, notLifecycle>>

\* stop(): resolves at once without a server; else calls server.close(cb)
\* and stays pending until cb runs.  close() on a server that is closing
\* already has its callback called with ERR_SERVER_NOT_RUNNING.
Stop ==
  /\ Len(stopCalls) < MaxStops
  /\ IF server = Null
     THEN /\ stopCalls' = Append(stopCalls, "resolved")
          /\ UNCHANGED server
     ELSE /\ stopCalls' = Append(stopCalls, IF server = "listening"
                                            THEN "pending"
                                            ELSE "pendingNotRunning")
          /\ server' = "closing"
  /\ UNCHANGED <<endpoints, paymentCache, requests, liveServers, notLifecycle>>

\* What the close callback of a stop() does to its promise.
AfterClose(stopCall) ==
  IF stopCall = "pending" THEN "resolved"
  ELSE IF stopCall = "pendingNotRunning" THEN "rejected"
  ELSE stopCall

\* The 'close' event of the http.Server: every connection has ended, the
\* callbacks given to close() run; the one without an error sets
\* this.server = null and resolves, the others reject.
ServerClosed ==
  /\ server = "closing"
  /\ \A c \in DOMAIN requests : IsFree(c)
  /\ stopCalls' = [i \in DOMAIN stopCalls |-> AfterClose(stopCalls[i])]
  /\ server' = IF \E i \in DOMAIN stopCalls : stopCalls[i] = "pending"
               THEN Null ELSE server
  /\ liveServers' = liveServers - 1
  /\ UNCHANGED <<endpoints, paymentCache, requests, notLifecycle>>

\* getServerStats().running: !!this.server
Running == server # Null

\* requirePayment(amount, description, currency)(handler)
RequirePayment ==
  \E reg \in RegisterInputs, handler \in Handlers :
    /\ endpoints' = [endpoints EXCEPT ![PathOf(handler)] =
                       EndpointConfigOf(reg.amount, "data", reg.currency, handler)]
    /\ UNCHANGED <<server, paymentCache, requests, notServer>>

\* clearPaymentCache()
ClearPaymentCache ==
  /\ paymentCache' = [id \in Identifiers |-> None]
  /\ UNCHANGED <<server, endpoints, requests, notServer>>

\* The createServer callback: handleRequest(req, res) up to its first await
\* on the chain or on the body, or to its answer.
HandleRequestOf(inputs) ==
  \E c \in DOMAIN requests, input \in inputs, outcome \in HandlerOutcomes :
    /\ server = "listening"
    /\ IsFree(c)
    /\ requests' = [requests EXCEPT ![c] =
                      Receive(input, endpoints, paymentCache, outcome)]
    /\ UNCHANGED <<server, endpoints, paymentCache, notServer>>

HandleRequest == HandleRequestOf(RequestInputs)

\* The same callback for the requests of the two connections.
HandleConcurrentRequest == HandleRequestOf(ConcurrentInputs)

\* A verifyPayment that caches the proof whatever the manager answered.
VerifyPaymentOnChainCachingAll ==
  \E c \in DOMAIN requests, view \in ChainViews, outcome \in HandlerOutcomes :
    /\ requests[c] # None
    /\ requests[c].pc = "verifying"
    /\ LET r == requests[c]
           mockProof == MockProofOf(r.identifier, r.endpoint)
           isValid == ManagerVerifyPayment(view, mockProof)
       IN  /\ paymentCache' = [paymentCache EXCEPT ![r.identifier] = mockProof]
           /\ requests' = [requests EXCEPT ![c] = AfterVerify(r, isValid, outcome)]
    /\ UNCHANGED <<server, endpoints, notServer>>

\* The provider answers the lookups of paymentManager.verifyPayment;
\* verifyPayment caches a valid proof and handleRequest goes on.
VerifyPaymentOnChain ==
  \E c \in DOMAIN requests, view \in ChainViews, outcome \in HandlerOutcomes :
    /\ requests[c] # None
    /\ requests[c].pc = "verifying"
    /\ LET r == requests[c]
           mockProof == MockProofOf(r.identifier, r.endpoint)
           isValid == ManagerVerifyPayment(view, mockProof)
       IN  /\ paymentCache' = IF isValid
                              THEN [paymentCache EXCEPT ![r.identifier] = mockProof]
                              ELSE paymentCache
           /\ requests' = [requests EXCEPT ![c] = AfterVerify(r, isValid, outcome)]
    /\ UNCHANGED <<server, endpoints, notServer>>

\* req.on('end'): the body of a POST or PUT has arrived.
RequestBodyEnd ==
  \E c \in DOMAIN requests, outcome \in HandlerOutcomes :
    /\ requests[c] # None
    /\ requests[c].pc = "body"
    /\ requests' = [requests EXCEPT ![c] = Execute(requests[c], outcome)]
    /\ UNCHANGED <<server, endpoints, paymentCache, notServer>>

ServerNext ==
  \/ Start
  \/ RequirePayment
  \/ ClearPaymentCache
  \/ HandleRequest
  \/ VerifyPaymentOnChain
  \/ RequestBodyEnd

\* The server of a process that uses none.
ServerAtRest == ServerInit

\* A new X402Server that two clients are connected to.
PaywallInit ==
  /\ server = Null
  /\ endpoints = [p \in Paths |-> None]
  /\ paymentCache = [id \in Identifiers |-> None]
  /\ requests = [c \in ConcurrentConnections |-> None]
  /\ stopCalls = <<>>
  /\ liveServers = 0

\* The server with its whole life and with requests outstanding together.
PaywallNext ==
  \/ Start
  \/ Stop
  \/ ServerClosed
  \/ RequirePayment
  \/ ClearPaymentCache
  \/ HandleConcurrentRequest
  \/ VerifyPaymentOnChain
  \/ RequestBodyEnd

----------------------------------------------------------------------------
(* Two-leg settlement: executePayment of X402PaymentManager.ts (the manager *)
(* the SDK uses) and of X402Payment.ts                                     *)

RECURSIVE StripLeadingZeros(_)
StripLeadingZeros(s) ==
  IF Len(s) > 1 /\ s[1] = "0" THEN StripLeadingZeros(Tail(s)) ELSE s

\* ethers.parseUnits(value, decimals) with the BigInt it returns written as
\* its decimal digits, so that 18 decimals need no wide integers.
ParseUnitsText(s, decimals) ==
  LET whole == WholePart(s)
      frac == FracPart(s)
      padded == frac \o Zeros(decimals - Len(frac))
      kept == SubSeq(padded, 1, decimals)
      extra == SubSeq(padded, decimals + 1, Len(padded))
  IN  IF ~(AllDigits(whole) /\ AllDigits(frac)) \/ Len(whole) + Len(frac) = 0
      THEN [ok |-> FALSE, text |-> <<>>]
      ELSE IF \E i \in 1..Len(extra) : extra[i] # "0"
      THEN [ok |-> FALSE, text |-> <<>>]
      ELSE [ok |-> TRUE, text |-> StripLeadingZeros(whole \o kept)]

\* protocolFee > 0 for a number written in decimal notation
PositiveNumber(s) == \E i \in 1..Len(s) : IsDigit(s[i]) /\ s[i] # "0"

Str_10 == <<"1", "0">>

Str_0 == <<"0">>

\* 0.0000025, what 0.0001 * 0.025 prints as: seven fraction digits
Str_0_0000025 == <<"0", ".">> \o Zeros(5) \o <<"2", "5">>

\* 0.000000001
Str_1e_9 == <<"0", ".">> \o Zeros(8) \o <<"1">>

\* paymentRequest.currency.toUpperCase()
ToUpperCase(currency) == IF currency = "usdc" THEN "USDC" ELSE currency

\* X402PaymentManager.ts: this.usdcAddresses[this.network]
SdkUsdcAddress(network) ==
  CASE network = "base-sepolia" -> "0x036CbD53842c5426634e7929541eC2318f3dCF7e"
    [] network = "ethereum-sepolia" -> "0x1c7D4B196Cb0C7B01d743Fbc6116a902379C7238"
    [] network = "optimism-sepolia" -> "0x5fd84259d66Cd46123540766Be93DFE6D43130D7"
    [] network = "linea-sepolia" -> "0x1c7D4B196Cb0C7B01d743Fbc6116a902379C7238"
    [] OTHER -> ""

\* X402PaymentManager.ts: getTreasuryAddress(network)
SdkTreasuryAddress(network) ==
  CASE network = "ethereum-sepolia" -> "0x8004a6090Cd10A7288092483047B097295Fb8847"
    [] network = "optimism-sepolia" -> "0x8004a6090Cd10A7288092483047B097295Fb8847"
    [] network = "linea-sepolia" -> "0x8004aa7C931bCE1233973a0C6A667f73F66282e7"
    [] OTHER -> "0x8004AA63c570c570eBF15376c0dB199918BFe9Fb"

ZeroAddressText == "0x0000000000000000000000000000000000000000"

\* utils/contracts.ts: getUSDCAddress(network)
GetUSDCAddress(network) ==
  CASE network = "ethereum-sepolia" -> "0x1c7D4B196Cb0C7B01d743Fbc6116a902379C7238"
    [] network = "base-sepolia" -> "0x036CbD53842c5426634e7929541eC2318f3dCF7e"
    [] network = "optimism-sepolia" -> "0x5fd84259d66Cd46123540766Be93DFE6D43130D7"
    [] OTHER -> ZeroAddressText

\* X402Payment.ts constructor: the default treasuryAddress
DefaultTreasuryAddress == "0x742d35Cc6634C0532925a3b844Bc9e7595f0bEb1"

RecipientAddress == "0xRecipient"

\* The hashes of the transactions a call submits, and that of none.
MainHash == "0xmain"

FeeHash == "0xfee"

UndefinedHash == "undefined"

PayNetworks == {"base-sepolia", "linea-sepolia", "0g-testnet"}

\* executePayment(paymentRequest, recipientAddress) of X402PaymentManager.ts:
\* amount and protocol_fee are numbers, written as their toString().
SdkPayInputs ==
  [impl : {"X402PaymentManager"}, network : PayNetworks,
   currency : {"USDC", "usdc", "ETH", "NATIVE", "DAI"},
   amount : {Str_10, Str_0},
   fee : {Str_0_25, Str_0, Str_0_0000025}]

\* executePayment(params) of X402Payment.ts: amount is a string and the fee
\* is computed from this.feePercentage.
X402PayInputs ==
  [impl : {"X402Payment"}, network : PayNetworks,
   currency : {"USDC", "usdc", "DAI"},
   amount : {Str_10_0, Str_0, <<"a", "b", "c">>},
   fee : {<<>>}]
  \cup
  [impl : {"X402Payment"}, network : PayNetworks,
   currency : {"ETH"},
   amount : {Str_1e_9, Str_0},
   fee : {<<>>}]

PayInputs == SdkPayInputs \cup X402PayInputs

\* An error object: its class and its message.
ErrorOf(name, message) == [kind |-> "error", name |-> name, message |-> message]

\* The call as it is when executePayment is entered.
NewPayCall(input) ==
  [input |-> input,
   pc |-> "entered",
   asset |-> "none",
   mainValue |-> <<>>,
   feeValue |-> <<>>,
   feeDue |-> FALSE,
   treasury |-> "",
   mainLeg |-> "none",
   feeLeg |-> "none",
   mainTxHash |-> UndefinedHash,
   feeTxHash |-> UndefinedHash,
   result |-> None]

\* The promise of executePayment rejects. X402PaymentManager.ts wraps what
\* was thrown inside its try block in a PaymentError; X402Payment.ts lets
\* the error through.
RejectWith(call, message) ==
  [call EXCEPT
     !.pc = "done",
     !.result = IF call.input.impl = "X402PaymentManager"
                THEN ErrorOf("PaymentError", <<"x402 payment failed: ">> \o message)
                ELSE ErrorOf("Error", message)]

\* A manager that takes every other currency for USDC and does not look up
\* the token's address.
SdkPrepareAnyToken(call) ==
  LET currency == ToUpperCase(call.input.currency)
      native == currency \in {"ETH", "NATIVE"}
      decimals == IF native THEN 18 ELSE 6
      amountUnits == ParseUnitsText(call.input.amount, decimals)
      feeUnits == ParseUnitsText(call.input.fee, decimals)
  IN  IF ~amountUnits.ok \/ ~feeUnits.ok
      THEN RejectWith(call, <<"invalid FixedNumber string value">>)
      ELSE [call EXCEPT
              !.pc = "mainSend",
              !.asset = IF native THEN "ETH" ELSE "USDC",
              !.mainValue = amountUnits.text,
              !.feeValue = feeUnits.text,
              !.feeDue = PositiveNumber(call.input.fee),
              !.treasury = SdkTreasuryAddress(call.input.network)]

\* X402PaymentManager.ts once getNetwork() has answered: the currency
\* switch, and executeNativePayment or executeUsdcPayment up to the first send.
SdkPrepare(call) ==
  LET currency == ToUpperCase(call.input.currency)
      native == currency \in {"ETH", "NATIVE"}
      decimals == IF native THEN 18 ELSE 6
      amountUnits == ParseUnitsText(call.input.amount, decimals)
      feeUnits == ParseUnitsText(call.input.fee, decimals)
  IN  IF ~native /\ currency # "USDC"
      THEN RejectWith(call, <<"Unsupported currency: ", currency>>)
      ELSE IF ~native /\ SdkUsdcAddress(call.input.network) = ""
      THEN RejectWith(call, <<"USDC not supported on ", call.input.network>>)
      ELSE IF ~amountUnits.ok \/ ~feeUnits.ok
      THEN RejectWith(call, <<"invalid FixedNumber string value">>)
      ELSE [call EXCEPT
              !.pc = "mainSend",
              !.asset = IF native THEN "ETH" ELSE "USDC",
              !.mainValue = amountUnits.text,
              !.feeValue = feeUnits.text,
              !.feeDue = PositiveNumber(call.input.fee),
              !.treasury = SdkTreasuryAddress(call.input.network)]

\* X402Payment.ts from its entry to the first send: parse the amount, take
\* the fee off it, and choose sendETH or sendUSDC.
X402Prepare(call, pct) ==
  LET currency == call.input.currency
      decimals == IF currency = "ETH" THEN 18 ELSE 6
      amountBigInt == ParseUnits(call.input.amount, decimals)
      feeAmount == FeeAmount(amountBigInt.value, FeeBps(pct))
      netAmount == amountBigInt.value - feeAmount
  IN  IF ~amountBigInt.ok
      THEN RejectWith(call, <<"invalid FixedNumber string value">>)
      ELSE IF currency \notin {"ETH", "USDC"}
      THEN RejectWith(call, <<"Unsupported currency: ", currency>>)
      ELSE IF currency = "USDC" /\ GetUSDCAddress(call.input.network) = ZeroAddressText
      THEN RejectWith(call, <<"USDC not available on network: ", call.input.network>>)
      ELSE [call EXCEPT
              !.pc = "mainSend",
              !.asset = currency,
              !.mainValue = IntToDigits(netAmount),
              !.feeValue = IntToDigits(feeAmount),
              !.feeDue = feeAmount > 0,
              !.treasury = DefaultTreasuryAddress]

\* What follows the two legs: the receipt lookup of X402PaymentManager.ts,
\* the signer.getAddress() of X402Payment.ts.
AfterLegs(call) ==
  [call EXCEPT !.pc = IF call.input.impl = "X402PaymentManager"
                      THEN "getReceipt" ELSE "getAddress"]

\* A settlement that goes on to the fee leg whatever became of the main leg.
AfterMainLegUnawaited(call, confirmed) ==
  LET c == [call EXCEPT !.mainLeg = IF confirmed THEN "confirmed" ELSE "failed",
                        !.mainTxHash = MainHash]
  IN  IF c.feeDue THEN [c EXCEPT !.pc = "feeSend"] ELSE AfterLegs(c)

\* await mainTx.wait() has settled: go on to the fee leg when a fee is due.
AfterMainLeg(call, confirmed) ==
  IF ~confirmed
  THEN RejectWith([call EXCEPT !.mainLeg = "failed"], <<"transaction failed">>)
  ELSE LET c == [call EXCEPT !.mainLeg = "confirmed", !.mainTxHash = MainHash]
       IN  IF c.feeDue THEN [c EXCEPT !.pc = "feeSend"] ELSE AfterLegs(c)

\* A settlement that goes on without the fee when the fee leg fails.
AfterFeeLegDropped(call, confirmed) ==
  IF ~confirmed
  THEN AfterLegs([call EXCEPT !.feeLeg = "failed"])
  ELSE AfterLegs([call EXCEPT !.feeLeg = "confirmed", !.feeTxHash = FeeHash])

\* await feeTx.wait() has settled.
AfterFeeLeg(call, confirmed) ==
  IF ~confirmed
  THEN RejectWith([call EXCEPT !.feeLeg = "failed"], <<"transaction failed">>)
  ELSE AfterLegs([call EXCEPT !.feeLeg = "confirmed", !.feeTxHash = FeeHash])

\* The X402PaymentProof of X402PaymentManager.ts; block_number and
\* timestamp are left out.
ProofOf(call, receiptStatus) ==
  [kind |-> "proof",
   transaction_hash |-> call.mainTxHash,
   main_transaction_hash |-> call.mainTxHash,
   fee_transaction_hash |-> call.feeTxHash,
   to_address |-> RecipientAddress,
   treasury_address |-> call.treasury,
   amount |-> call.input.amount,
   currency |-> ToUpperCase(call.input.currency),
   protocol_fee |-> call.input.fee,
   network |-> call.input.network,
   status |-> IF receiptStatus = "status1" THEN "confirmed" ELSE "failed",
   confirmations |-> 1]

\* The X402Payment of X402Payment.ts; from and timestamp are left out.
PaymentOf(call) ==
  [kind |-> "payment",
   to |-> RecipientAddress,
   amount |-> call.input.amount,
   currency |-> call.input.currency,
   txHash |-> call.mainTxHash,
   feeAmount |-> FormatUnits(DigitsToInt(call.feeValue),
                             IF call.input.currency = "ETH" THEN 18 ELSE 6),
   feeTxHash |-> call.feeTxHash]

\* A wallet that sends both legs to the recipient.
TransferOfToRecipient(leg, call) ==
  [leg |-> leg,
   hash |-> IF leg = "main" THEN MainHash ELSE FeeHash,
   asset |-> call.asset,
   to |-> RecipientAddress,
   value |-> IF leg = "main" THEN call.mainValue ELSE call.feeValue]

\* A transaction the wallet has submitted.
TransferOf(leg, call) ==
  [leg |-> leg,
   hash |-> IF leg = "main" THEN MainHash ELSE FeeHash,
   asset |-> call.asset,
   to |-> IF leg = "main" THEN RecipientAddress ELSE call.treasury,
   value |-> IF leg = "main" THEN call.mainValue ELSE call.feeValue]

PayInit ==
  /\ payCall = None
  /\ submitted = <<>>

PayIdle == IF payCall = None THEN TRUE ELSE payCall.pc = "done"

PayAt(pc) == IF payCall = None THEN FALSE ELSE payCall.pc = pc

\* executePayment is called: X402Payment.ts runs to its first send at once,
\* X402PaymentManager.ts awaits provider.getNetwork() first.
ExecutePayment ==
  \E input \in PayInputs :
    /\ PayIdle
    /\ payCall' = IF input.impl = "X402PaymentManager"
                  THEN [NewPayCall(input) EXCEPT !.pc = "getNetwork"]
                  ELSE X402Prepare(NewPayCall(input), feePercentage)
    /\ submitted' = <<>>
    /\ UNCHANGED notPay

\* provider.getNetwork() answers or throws
GetNetwork ==
  \E ok \in BOOLEAN :
    /\ PayAt("getNetwork")
    /\ payCall' = IF ok THEN SdkPrepare(payCall)
                  ELSE RejectWith(payCall, <<"could not detect network">>)
    /\ UNCHANGED <<submitted, notPay>>

\* wallet.sendTransaction / usdcContract.transfer for the main leg: the
\* transaction is submitted, or the call throws and nothing is.
MainSend ==
  \E ok \in BOOLEAN :
    /\ PayAt("mainSend")
    /\ IF ok
       THEN /\ payCall' = [payCall EXCEPT !.pc = "mainWait", !.mainLeg = "submitted"]
            /\ submitted' = Append(submitted, TransferOf("main", payCall))
       ELSE /\ payCall' = RejectWith([payCall EXCEPT !.mainLeg = "refused"],
                                     <<"insufficient funds">>)
            /\ submitted' = submitted
    /\ UNCHANGED notPay

\* await mainTx.wait(): mined with status 1, or reverted and wait() throws
MainWait ==
  \E confirmed \in BOOLEAN :
    /\ PayAt("mainWait")
    /\ payCall' = AfterMainLeg(payCall, confirmed)
    /\ UNCHANGED <<submitted, notPay>>

\* The send of the fee leg, to the treasury
FeeSend ==
  \E ok \in BOOLEAN :
    /\ PayAt("feeSend")
    /\ IF ok
       THEN /\ payCall' = [payCall EXCEPT !.pc = "feeWait", !.feeLeg = "submitted"]
            /\ submitted' = Append(submitted, TransferOf("fee", payCall))
       ELSE /\ payCall' = RejectWith([payCall EXCEPT !.feeLeg = "refused"],
                                     <<"insufficient funds">>)
            /\ submitted' = submitted
    /\ UNCHANGED notPay

\* await feeTx.wait()
FeeWait ==
  \E confirmed \in BOOLEAN :
    /\ PayAt("feeWait")
    /\ payCall' = AfterFeeLeg(payCall, confirmed)
    /\ UNCHANGED <<submitted, notPay>>

\* X402PaymentManager.ts: provider.getTransactionReceipt(mainTxHash), then
\* the proof is returned.
GetTransactionReceipt ==
  \E answer \in {"status1", "null", "throws"} :
    /\ PayAt("getReceipt")
    /\ payCall' = IF answer = "throws"
                  THEN RejectWith(payCall, <<"could not fetch receipt">>)
                  ELSE [payCall EXCEPT !.pc = "done", !.result = ProofOf(payCall, answer)]
    /\ UNCHANGED <<submitted, notPay>>

\* X402Payment.ts: signer.getAddress(), then the payment is returned.
GetAddress ==
  \E ok \in BOOLEAN :
    /\ PayAt("getAddress")
    /\ payCall' = IF ok
                  THEN [payCall EXCEPT !.pc = "done", !.result = PaymentOf(payCall)]
                  ELSE RejectWith(payCall, <<"unknown account">>)
    /\ UNCHANGED <<submitted, notPay>>

PayNext ==
  \/ ExecutePayment
  \/ GetNetwork
  \/ MainSend
  \/ MainWait
  \/ FeeSend
  \/ FeeWait
  \/ GetTransactionReceipt
  \/ GetAddress

----------------------------------------------------------------------------
(* The x402 entry points of ChaosChainSDK                                   *)

\* config.enablePayments: true, false, or left out
SdkConfigs == [enablePayments : {"true", "false", OmittedArg}]

\* The constructor: if (config.enablePayments !== false) it creates the
\* payment manager.
NewSdk(config) ==
  [config |-> config,
   x402PaymentManager |-> IF config.enablePayments # "false"
                          THEN "defined" ELSE "undefined"]

\* if (!this.x402PaymentManager) throw new Error('x402 payments not enabled')
NotEnabledMessage == "x402 payments not enabled"

NotEnabled(op, input) ==
  [op |-> op, input |-> input, outcome |-> "throw", error |-> NotEnabledMessage]

Returned(op, input, result) ==
  [op |-> op, input |-> input, outcome |-> "return", result |-> result]

\* a parameter with a default value
OrDefault(arg, default) == IF arg = OmittedArg THEN default ELSE arg

DefaultServiceDescription == "AI Agent Service"

\* X402PaymentManager.createPaymentRequest; payment_id and created_at, a
\* random token and a time of day, are left out.  amount is a whole number
\* and protocol_fee, amount * 0.025, is in thousandths.
CreatePaymentRequest(fromAgent, toAgent, amount, currency, serviceDescription) ==
  [from_agent |-> fromAgent,
   to_agent |-> toAgent,
   amount |-> amount,
   currency |-> currency,
   service_description |-> serviceDescription,
   network |-> "base-sepolia",
   protocol_fee |-> [thousandths |-> amount * 25]]

PaymentRequestInputs ==
  [fromAgent : {"Alice"}, toAgent : {"Bob"}, amount : {1, 10},
   currency : {"USDC", "ETH", OmittedArg},
   serviceDescription : {"Premium AI Analysis Service", OmittedArg}]

\* The example program passes the amount as the string '5.0'.
SdkRequirementsInputs ==
  [amount : {<<"5", ".", "0">>, Str_10},
   currency : {"USDC", "ETH", OmittedArg},
   serviceDescription : {"Premium AI Analysis Service", OmittedArg}]

DefaultPort == 8402

PortInputs == {OmittedArg, "3000"}

LimitInputs == {OmittedArg, "5"}

\* payment requests handed to executeX402Payment
SdkExecuteInputs ==
  {in \in SdkPayInputs :
     /\ in.network = "base-sepolia" /\ in.amount = Str_10 /\ in.fee = Str_0_25
     /\ in.currency \in {"USDC", "DAI"}}

SdkInit ==
  /\ sdk \in {NewSdk(c) : c \in SdkConfigs}
  /\ sdkCall = None

SdkAtRest ==
  /\ sdk = NewSdk([enablePayments |-> OmittedArg])
  /\ sdkCall = None

\* ChaosChainSDK.createX402PaymentRequest
CreateX402PaymentRequest ==
  \E in \in PaymentRequestInputs :
    /\ sdkCall' =
         IF sdk.x402PaymentManager = "undefined"
         THEN NotEnabled("createX402PaymentRequest", in)
         ELSE Returned("createX402PaymentRequest", in,
                CreatePaymentRequest(in.fromAgent, in.toAgent, in.amount,
                  OrDefault(in.currency, "USDC"),
                  OrDefault(in.serviceDescription, DefaultServiceDescription)))
    /\ UNCHANGED <<sdk, feeCall, payVars, notSdk>>

\* ChaosChainSDK.executeX402Payment: the check, then the payment manager's
\* executePayment is entered and its promise returned.
ExecuteX402Payment ==
  \E in \in SdkExecuteInputs :
    /\ PayIdle
    /\ IF sdk.x402PaymentManager = "undefined"
       THEN /\ sdkCall' = NotEnabled("executeX402Payment", in)
            /\ UNCHANGED payVars
       ELSE /\ sdkCall' = Returned("executeX402Payment", in,
                            [kind |-> "Promise", of |-> "executePayment"])
            /\ payCall' = [NewPayCall(in) EXCEPT !.pc = "getNetwork"]
            /\ submitted' = <<>>
    /\ UNCHANGED <<sdk, feeCall, notSdk>>

\* ChaosChainSDK.createX402PaymentRequirements
CreateX402PaymentRequirements ==
  \E in \in SdkRequirementsInputs :
    /\ sdkCall' =
         IF sdk.x402PaymentManager = "undefined"
         THEN NotEnabled("createX402PaymentRequirements", in)
         ELSE Returned("createX402PaymentRequirements", in,
                CreatePaymentRequirements(in.amount,
                  OrDefault(in.currency, "USDC"),
                  OrDefault(in.serviceDescription, DefaultServiceDescription)))
    /\ UNCHANGED <<sdk, feeCall, payVars, notSdk>>

\* ChaosChainSDK.createX402PaywallServer: a new server object, not started
CreateX402PaywallServer ==
  \E port \in PortInputs :
    /\ sdkCall' =
         IF sdk.x402PaymentManager = "undefined"
         THEN NotEnabled("createX402PaywallServer", port)
         ELSE Returned("createX402PaywallServer", port,
                [kind |-> "X402Server",
                 port |-> IF port = OmittedArg THEN DefaultPort ELSE 3000])
    /\ UNCHANGED <<sdk, feeCall, payVars, notSdk>>

\* ChaosChainSDK.getX402PaymentHistory: the manager returns an empty array
GetX402PaymentHistory ==
  \E limit \in LimitInputs :
    /\ sdkCall' =
         IF sdk.x402PaymentManager = "undefined"
         THEN NotEnabled("getX402PaymentHistory", limit)
         ELSE Returned("getX402PaymentHistory", limit, <<>>)
    /\ UNCHANGED <<sdk, feeCall, payVars, notSdk>>

SdkNext ==
  \/ CreateX402PaymentRequest
  \/ ExecuteX402Payment
  \/ CreateX402PaymentRequirements
  \/ CreateX402PaywallServer
  \/ GetX402PaymentHistory
  \/ SdkCalculateTotalCostCall

----------------------------------------------------------------------------
(* Network lookup: utils/networks.ts                                        *)

\* An address literal: its first two characters and the rest.
Hex(rest) == <<"0x", rest>>

\* ERC8004_ADDRESSES
ERC8004_ADDRESSES ==
  [n \in {"ethereum-sepolia", "base-sepolia", "linea-sepolia", "hedera-testnet",
          "0g-testnet"} |->
     CASE n = "ethereum-sepolia" ->
            [identity |-> Hex("8004a6090Cd10A7288092483047B097295Fb8847"),
             reputation |-> Hex("8004B8FD1A363aa02fDC07635C0c5F94f6Af5B7E"),
             validation |-> Hex("8004CB39f29c09145F24Ad9dDe2A108C1A2cdfC5")]
       [] n = "base-sepolia" ->
            [identity |-> Hex("8004AA63c570c570eBF15376c0dB199918BFe9Fb"),
             reputation |-> Hex("8004bd8daB57f14Ed299135749a5CB5c42d341BF"),
             validation |-> Hex("8004C269D0A5647E51E121FeB226200ECE932d55")]
       [] n = "linea-sepolia" ->
            [identity |-> Hex("8004aa7C931bCE1233973a0C6A667f73F66282e7"),
             reputation |-> Hex("8004bd8483b99310df121c46ED8858616b2Bba02"),
             validation |-> Hex("8004c44d1EFdd699B2A26e781eF7F77c56A9a4EB")]
       [] n = "hedera-testnet" ->
            [identity |-> Hex("4c74ebd72921d537159ed2053f46c12a7d8e5923"),
             reputation |-> Hex("c565edcba77e3abeade40bfd6cf6bf583b3293e0"),
             validation |-> Hex("18df085d85c586e9241e0cd121ca422f571c2da6")]
       [] n = "0g-testnet" ->
            [identity |-> Hex("80043ed9cf33a3472768dcd53175bb44e03a1e4a"),
             reputation |-> Hex("80045d7b72c47bf5ff73737b780cb1a5ba8ee202"),
             validation |-> Hex("80041728e0aadf1d1427f9be18d52b7f3afefafb")]]

LocalContracts ==
  [identity |-> Hex("5FbDB2315678afecb367f032d93F642f64180aa3"),
   reputation |-> Hex("e7f1725E7734CE288F8367e1Bb143E90bb3F0512"),
   validation |-> Hex("9fE46736679d2D9a65F0992F2272dE9f3c7fa6e0")]

\* The keys of the NETWORK_INFO literal, and for each the environment
\* variable that overrides its rpcUrl.
NetworkKeys ==
  {"ethereum-sepolia", "base-sepolia", "linea-sepolia", "hedera-testnet",
   "0g-testnet", "local"}

RpcEnvOf(n) ==
  CASE n = "ethereum-sepolia" -> "ETHEREUM_SEPOLIA_RPC_URL"
    [] n = "base-sepolia" -> "BASE_SEPOLIA_RPC_URL"
    [] n = "linea-sepolia" -> "LINEA_SEPOLIA_RPC_URL"
    [] n = "hedera-testnet" -> "HEDERA_TESTNET_RPC_URL"
    [] n = "0g-testnet" -> "ZEROG_TESTNET_RPC_URL"
    [] n = "local" -> "LOCAL_RPC_URL"

DefaultRpcUrl(n) ==
  CASE n = "ethereum-sepolia" -> "https://rpc.sepolia.org"
    [] n = "base-sepolia" -> "https://sepolia.base.org"
    [] n = "linea-sepolia" -> "https://rpc.sepolia.linea.build"
    [] n = "hedera-testnet" -> "https://testnet.hashio.io/api"
    [] n = "0g-testnet" -> "https://evmrpc-testnet.0g.ai"
    [] n = "local" -> "http://localhost:8545"

ChainIdOf(n) ==
  CASE n = "ethereum-sepolia" -> 11155111
    [] n = "base-sepolia" -> 84532
    [] n = "linea-sepolia" -> 59141
    [] n = "hedera-testnet" -> 296
    [] n = "0g-testnet" -> 16600
    [] n = "local" -> 31337

NetworkTitleOf(n) ==
  CASE n = "ethereum-sepolia" -> "Ethereum Sepolia Testnet"
    [] n = "base-sepolia" -> "Base Sepolia Testnet"
    [] n = "linea-sepolia" -> "Linea Sepolia Testnet"
    [] n = "hedera-testnet" -> "Hedera Testnet"
    [] n = "0g-testnet" -> "0G Network Testnet"
    [] n = "local" -> "Local Network"

\* The table as the module builds it when loaded in an environment where the
\* variables of env are set (to a non-empty value).
NetworkInfoTable(env) ==
  [n \in NetworkKeys |->
     [chainId |-> ChainIdOf(n),
      name |-> NetworkTitleOf(n),
      rpcUrl |-> IF RpcEnvOf(n) \in env THEN <<"env", RpcEnvOf(n)>>
                 ELSE <<"default", DefaultRpcUrl(n)>>,
      contracts |-> IF n = "local" THEN LocalContracts ELSE ERC8004_ADDRESSES[n]]]

\* The properties every object literal inherits from Object.prototype.
ObjectPrototypeKeys ==
  {"constructor", "toString", "valueOf", "hasOwnProperty", "__proto__"}

Inherited(key) == [kind |-> "inherited", property |-> key]

\* obj[key] of a plain object: an own property, else an inherited one
GetProperty(obj, key) ==
  IF key \in DOMAIN obj THEN obj[key]
  ELSE IF key \in ObjectPrototypeKeys THEN Inherited(key)
  ELSE Undefined

\* key in obj
HasProperty(obj, key) == key \in DOMAIN obj \/ key \in ObjectPrototypeKeys

\* Object.keys(obj)
OwnKeys(obj) == DOMAIN obj

\* getNetworkInfo(network)
GetNetworkInfo(table, network) ==
  LET info == GetProperty(table, network)
  IN  IF info = Undefined
      THEN [outcome |-> "throw", message |-> <<"Unsupported network: ", network>>]
      ELSE [outcome |-> "return", value |-> info]

\* getContractAddresses(network)
GetContractAddresses(table, network) ==
  LET r == GetNetworkInfo(table, network)
  IN  IF r.outcome = "throw" THEN r
      ELSE [outcome |-> "return",
            value |-> IF "contracts" \in DOMAIN r.value THEN r.value.contracts
                      ELSE Undefined]

\* isNetworkSupported(network)
IsNetworkSupported(table, network) == HasProperty(table, network)

\* getSupportedNetworks()
GetSupportedNetworks(table) == OwnKeys(table)

NameInputs ==
  NetworkKeys \cup
    {"invalid-network", "", "Base-Sepolia", "optimism-sepolia", "toString",
     "constructor", "__proto__"}

RpcEnvNames == {RpcEnvOf(n) : n \in NetworkKeys}

NetworkInit ==
  /\ NETWORK_INFO \in {NetworkInfoTable(env) : env \in SUBSET RpcEnvNames}
  /\ networkCall = None

NetworkAtRest ==
  /\ NETWORK_INFO = NetworkInfoTable({})
  /\ networkCall = None

\* a call of getNetworkInfo
GetNetworkInfoCall ==
  \E name \in NameInputs :
    /\ networkCall' = [op |-> "getNetworkInfo", name |-> name,
                       result |-> GetNetworkInfo(NETWORK_INFO, name)]
    /\ UNCHANGED <<NETWORK_INFO, notNetwork>>

\* a call of getContractAddresses
GetContractAddressesCall ==
  \E name \in NameInputs :
    /\ networkCall' = [op |-> "getContractAddresses", name |-> name,
                       result |-> GetContractAddresses(NETWORK_INFO, name)]
    /\ UNCHANGED <<NETWORK_INFO, notNetwork>>

\* a call of isNetworkSupported
IsNetworkSupportedCall ==
  \E name \in NameInputs :
    /\ networkCall' = [op |-> "isNetworkSupported", name |-> name,
                       result |-> [outcome |-> "return",
                                   value |-> IsNetworkSupported(NETWORK_INFO, name)]]
    /\ UNCHANGED <<NETWORK_INFO, notNetwork>>

\* a call of getSupportedNetworks
GetSupportedNetworksCall ==
  /\ networkCall' = [op |-> "getSupportedNetworks", name |-> "",
                     result |-> [outcome |-> "return",
                                 value |-> GetSupportedNetworks(NETWORK_INFO)]]
  /\ UNCHANGED <<NETWORK_INFO, notNetwork>>

NetworkNext ==
  \/ GetNetworkInfoCall
  \/ GetContractAddressesCall
  \/ IsNetworkSupportedCall
  \/ GetSupportedNetworksCall

----------------------------------------------------------------------------
(* ERC8004Client: integrations/erc8004/index.ts                             *)

\* The most calls a client sends to contracts in one behaviour.
MaxSent == 2

Signers == {"s1", "s2"}

NoSigner == "undefined"

\* The constructor: a signer (an object with a signTransaction function)
\* becomes this.signer and the contracts' runner; a provider is the runner
\* and this.signer stays undefined.
NewClient(providerOrSigner) ==
  LET signer == IF providerOrSigner \in Signers THEN providerOrSigner ELSE NoSigner
      runner == IF signer # NoSigner THEN signer ELSE "provider"
  IN  [signer |-> signer,
       identity |-> runner, reputation |-> runner, validation |-> runner]

\* The contract a method of the client calls.
ContractOf(op) ==
  CASE op \in {"register", "setMetadata", "name", "symbol", "supportsERC721",
               "getMetadata", "ownerOf"} -> "identity"
    [] op \in {"giveFeedback", "revokeFeedback", "getFeedbackSummary"} -> "reputation"
    [] op \in {"submitValidation", "getValidations"} -> "validation"

SignerRequired(op) == <<"Signer required", " for ", op>>

ClientInit ==
  /\ client \in {NewClient(x) : x \in {"provider"} \cup Signers}
  /\ clientCall = None
  /\ sent = <<>>

ClientAtRest ==
  /\ client = NewClient("provider")
  /\ clientCall = None
  /\ sent = <<>>

\* connect(signer)
Connect ==
  \E signer \in Signers :
    /\ client' = [signer |-> signer, identity |-> signer, reputation |-> signer,
                  validation |-> signer]
    /\ clientCall' = [op |-> "connect", outcome |-> "return", error |-> <<>>]
    /\ UNCHANGED <<sent, notClient>>

\* A write operation without its check of this.signer.
WriteUnchecked(op) ==
  /\ Len(sent) < MaxSent
  /\ \E ok \in BOOLEAN :
       /\ sent' = Append(sent, [contract |-> ContractOf(op), method |-> op,
                                runner |-> client[ContractOf(op)]])
       /\ clientCall' = [op |-> op,
                         outcome |-> IF ok THEN "resolve" ELSE "reject",
                         error |-> IF ok THEN <<>> ELSE <<"call failed">>]
  /\ UNCHANGED <<client, notClient>>

\* A write operation: if (!this.signer) throw new Error("Signer required for
\* ..."), else the contract method is called through its runner and the
\* promise resolves or rejects with the chain's answer.
Write(op) ==
  /\ IF client.signer = NoSigner
     THEN /\ clientCall' = [op |-> op, outcome |-> "reject",
                            error |-> SignerRequired(op)]
          /\ UNCHANGED sent
     ELSE /\ Len(sent) < MaxSent
          /\ \E ok \in BOOLEAN :
               /\ sent' = Append(sent, [contract |-> ContractOf(op), method |-> op,
                                        runner |-> client[ContractOf(op)]])
               /\ clientCall' = [op |-> op,
                                 outcome |-> IF ok THEN "resolve" ELSE "reject",
                                 error |-> IF ok THEN <<>> ELSE <<"call failed">>]
  /\ UNCHANGED <<client, notClient>>

\* A read operation: the contract is queried through its runner; no
\* transaction is sent.
Read(op) ==
  /\ \E ok \in BOOLEAN :
       clientCall' = [op |-> op,
                      outcome |-> IF ok THEN "resolve" ELSE "reject",
                      error |-> IF ok THEN <<>> ELSE <<"call failed">>]
  /\ UNCHANGED <<client, sent, notClient>>

Register == Write("register")

SetMetadata == Write("setMetadata")

GiveFeedback == Write("giveFeedback")

RevokeFeedback == Write("revokeFeedback")

SubmitValidation == Write("submitValidation")

\* name(), symbol(), supportsERC721(), getMetadata(), ownerOf()
IdentityRead ==
  \E op \in {"name", "symbol", "supportsERC721", "getMetadata", "ownerOf"} : Read(op)

GetFeedbackSummary == Read("getFeedbackSummary")

GetValidations == Read("getValidations")

WriteOps ==
  {"register", "setMetadata", "giveFeedback", "revokeFeedback", "submitValidation"}

ClientNext ==
  \/ Connect
  \/ Register
  \/ SetMetadata
  \/ GiveFeedback
  \/ RevokeFeedback
  \/ SubmitValidation
  \/ IdentityRead
  \/ GetFeedbackSummary
  \/ GetValidations

----------------------------------------------------------------------------
(* Process integrity: ProcessIntegrity of ProcessIntegrity.ts, and the     *)
(* ProcessIntegrity the constructor of ChaosChainSDK builds                *)

\* The functions a caller registers, by func.name.
Funcs == {"analyze"}

\* The functionName argument of registerFunction: left out, empty, given.
NameArgs == {OmittedArg, "", "alias"}

\* The keys registeredFunctions and functionHashes can have.
FunctionKeys == {"analyze", "alias"}

\* The names executeWithProof is called with.
CallNames == FunctionKeys \cup {"missing"}

\* maxWait = 60000 ms, counted in waits of the loop's setTimeout(2000); the
\* model takes a shorter deadline.
MaxWaitTicks == 3

\* createHash('sha256').update(func.toString()).digest('hex')
GenerateCodeHash(func) == [alg |-> "sha256", of |-> func]

\* new ProcessIntegrity(agentName, storageManager = null, computeProvider = null):
\* a default applies to an argument that is left out or undefined.
NewProcessIntegrity(agentName, storageManager, computeProvider) ==
  [agentName |-> agentName,
   storageManager |-> IF storageManager = OmittedArg THEN Null ELSE storageManager,
   computeProvider |-> IF computeProvider = OmittedArg THEN Null ELSE computeProvider,
   registeredFunctions |-> [k \in FunctionKeys |-> Null],
   functionHashes |-> [k \in FunctionKeys |-> None]]

\* The fields of ChaosChainSDKConfig the constructor reads for storage,
\* compute and process integrity; "undefined" is a field left out.
IntegrityConfigs ==
  [storageProvider : {OmittedArg, "customStorage"},
   enableStorage : {TRUE, FALSE},
   computeProvider : {OmittedArg, "0g-compute"},
   enableProcessIntegrity : {TRUE, FALSE}]

\* this.storageBackend as the constructor of the SDK sets it
SdkStorageBackend(config) ==
  IF config.storageProvider # OmittedArg THEN config.storageProvider
  ELSE IF config.enableStorage # FALSE THEN "AutoStorageManager"
  ELSE "dummyStorage"

\* A constructor that assigns this.computeProvider first and gives the agent
\* name, the storage and the compute provider in their positions.
SdkProcessIntegrityInOrder(config) ==
  IF config.enableProcessIntegrity = FALSE
  THEN None
  ELSE NewProcessIntegrity("agent", SdkStorageBackend(config), config.computeProvider)

\* this.processIntegrity as the constructor of the SDK sets it:
\* new ProcessIntegrity(this.storageBackend, this.computeProvider), called
\* before this.computeProvider = config.computeProvider, when the field is
\* undefined still.
SdkProcessIntegrity(config) ==
  IF config.enableProcessIntegrity = FALSE
  THEN None
  ELSE NewProcessIntegrity(SdkStorageBackend(config), OmittedArg, OmittedArg)

\* A ProcessIntegrity a caller makes, and the one of an SDK.
ByCaller(storageManager, computeProvider) ==
  [owner |-> "caller",
   config |-> None,
   computeProvider |-> Null,
   processIntegrity |-> NewProcessIntegrity("agent", storageManager, computeProvider)]

BySdk(config) ==
  [owner |-> "sdk",
   config |-> config,
   computeProvider |-> config.computeProvider,
   processIntegrity |-> SdkProcessIntegrity(config)]

IntegrityInit ==
  /\ integrity \in
       {ByCaller(s, c) : s \in {OmittedArg, Null, "storage"},
                         c \in {OmittedArg, "0g-compute"}}
       \cup {BySdk(config) : config \in IntegrityConfigs}
  /\ integrityCall = None

\* No call of executeWithProof is in progress.
IntegrityIdle ==
  IF integrityCall = None THEN TRUE
  ELSE integrityCall.pc \in {"returned", "rejected"}

\* registerFunction(func, functionName): const name = functionName || func.name
RegisteredName(func, functionName) ==
  IF functionName = OmittedArg \/ functionName = "" THEN func ELSE functionName

RegisterFunctionIn(pi, func, functionName) ==
  LET name == RegisteredName(func, functionName)
  IN  [pi EXCEPT !.registeredFunctions[name] = func,
                 !.functionHashes[name] = GenerateCodeHash(func)]

\* processIntegrity.registerFunction(func, functionName) of a caller
RegisterFunction ==
  \E func \in Funcs, functionName \in NameArgs :
    /\ integrity.owner = "caller"
    /\ integrity' = [integrity EXCEPT !.processIntegrity =
                       RegisterFunctionIn(@, func, functionName)]
    /\ UNCHANGED <<integrityCall, notIntegrity>>

\* sdk.registerFunction(func): throws without a ProcessIntegrity, else
\* this.processIntegrity.registerFunction(func)
SdkRegisterFunction ==
  \E func \in Funcs :
    /\ integrity.owner = "sdk"
    /\ integrity.processIntegrity # None
    /\ integrity' = [integrity EXCEPT !.processIntegrity =
                       RegisterFunctionIn(@, func, OmittedArg)]
    /\ UNCHANGED <<integrityCall, notIntegrity>>

IntegrityVerificationError(message, details) ==
  [kind |-> "IntegrityVerificationError", message |-> message, details |-> details]

\* A call of executeWithProof as it starts.
NewIntegrityCall(functionName, requireProof, useTee) ==
  [functionName |-> functionName,
   requireProof |-> requireProof,
   useTee |-> useTee,
   pc |-> "start",
   executed |-> 0,           \* calls of func(inputs)
   funcOutcome |-> "none",
   submitted |-> 0,          \* calls of computeProvider.submit
   polls |-> 0,              \* calls of computeProvider.status
   waited |-> 0,             \* Date.now() - startWait
   teeFailure |-> "none",    \* why getTeeAttestation gave null
   uploads |-> 0,            \* calls of storageManager.uploadJson
   uploadFailed |-> FALSE,
   result |-> None,
   proof |-> None,
   error |-> None]

\* throw ...: the promise of the async function rejects.
RejectedWith(call, error) ==
  [call EXCEPT !.pc = "rejected", !.error = error, !.proof = None]

\* return [result, proof]
ReturnedWith(call, proof) ==
  [call EXCEPT !.pc = "returned", !.proof = proof]

\* What func(inputs) returns.
ResultOf(functionName, func) == [kind |-> "value", of |-> func]

\* The attestation getTeeAttestation builds from the provider's answers;
\* timestamp, a time of day, is left out.
TeeAttestationOf(call) ==
  [job_id |-> "job",
   provider |-> "0g-compute",
   execution_hash |-> "teeHash",
   verification_method |-> "tee",
   model |-> "gpt-oss-120b",
   attestation_data |-> "attestation"]

\* generateIntegrityProof(...): proof_id and the hash over the times are
\* left out; the TEE fields are undefined without an attestation.
GenerateIntegrityProof(pi, call, teeAttestation) ==
  [function_name |-> call.functionName,
   code_hash |-> pi.functionHashes[call.functionName],
   agent_name |-> pi.agentName,
   verification_status |-> "verified",
   ipfs_cid |-> UndefinedHash,
   tee_attestation |-> IF teeAttestation = None THEN Undefined ELSE teeAttestation,
   tee_provider |-> IF teeAttestation = None THEN UndefinedHash
                    ELSE teeAttestation.provider,
   tee_job_id |-> IF teeAttestation = None THEN UndefinedHash
                  ELSE teeAttestation.job_id,
   tee_execution_hash |-> IF teeAttestation = None THEN UndefinedHash
                          ELSE teeAttestation.execution_hash]

\* executeWithProof from the point getTeeAttestation has settled or was
\* skipped: [result, null] when no proof is asked for; else the proof, and
\* storeProofOnIpfs when there is a storage manager.
AfterAttestation(pi, call, teeAttestation) ==
  IF ~call.requireProof
  THEN ReturnedWith(call, None)
  ELSE LET proof == GenerateIntegrityProof(pi, call, teeAttestation)
       IN  IF pi.storageManager # Null
           THEN [call EXCEPT !.pc = "upload", !.uploads = @ + 1, !.proof = proof]
           ELSE ReturnedWith(call, proof)

\* An attestation failure that reaches the catch around the function call.
AttestationGivenUpRethrown(pi, call, why) ==
  RejectedWith([call EXCEPT !.teeFailure = why],
               IntegrityVerificationError(<<"Function execution failed: ", why>>,
                                          call.functionName))

\* getTeeAttestation returns null after a warning, or throws into the catch
\* of executeWithProof, which warns: the call goes on with teeAttestation null.
AttestationGivenUp(pi, call, why) ==
  AfterAttestation(pi, [call EXCEPT !.teeFailure = why], None)

\* while (Date.now() - startWait < maxWait): the next status call, or the
\* timeout warning and null.
PollOrTimeout(pi, call) ==
  IF call.waited < MaxWaitTicks
  THEN [call EXCEPT !.pc = "status", !.polls = @ + 1]
  ELSE AttestationGivenUp(pi, call, "deadline")

\* An executeWithProof that does not look the name up first.
BeginExecuteUnchecked(pi, functionName, requireProof, useTee) ==
  [NewIntegrityCall(functionName, requireProof, useTee)
     EXCEPT !.pc = "func", !.executed = 1]

\* executeWithProof up to its first await: the registration check, then
\* func(inputs) is called.
BeginExecute(pi, functionName, requireProof, useTee) ==
  LET call == NewIntegrityCall(functionName, requireProof, useTee)
  IN  IF functionName \notin FunctionKeys
      THEN RejectedWith(call,
             IntegrityVerificationError(<<"Function not registered: ", functionName>>,
                                        functionName))
      ELSE IF pi.registeredFunctions[functionName] = Null
      THEN RejectedWith(call,
             IntegrityVerificationError(<<"Function not registered: ", functionName>>,
                                        functionName))
      ELSE [call EXCEPT !.pc = "func", !.executed = 1]

\* await processIntegrity.executeWithProof(functionName, inputs, requireProof,
\* useTee) of a caller; an argument left out is true.
ExecuteWithProof ==
  \E functionName \in CallNames, requireProof \in BOOLEAN, useTee \in BOOLEAN :
    /\ integrity.owner = "caller"
    /\ IntegrityIdle
    /\ integrityCall' = BeginExecute(integrity.processIntegrity, functionName,
                                     requireProof, useTee)
    /\ UNCHANGED <<integrity, notIntegrity>>

\* await sdk.executeWithIntegrityProof(functionName, args): throws
\* Error('Process integrity not enabled') without a ProcessIntegrity, else
\* this.processIntegrity.executeWithProof(functionName, args)
ExecuteWithIntegrityProof ==
  \E functionName \in CallNames :
    /\ integrity.owner = "sdk"
    /\ IntegrityIdle
    /\ integrityCall' =
         IF integrity.processIntegrity = None
         THEN RejectedWith(NewIntegrityCall(functionName, TRUE, TRUE),
                           [kind |-> "Error",
                            message |-> <<"Process integrity not enabled">>,
                            details |-> functionName])
         ELSE BeginExecute(integrity.processIntegrity, functionName, TRUE, TRUE)
    /\ UNCHANGED <<integrity, notIntegrity>>

IntegrityAt(pc) ==
  /\ integrityCall # None
  /\ integrityCall.pc = pc

\* await func(inputs) settles: a throw is caught and rethrown as an
\* IntegrityVerificationError; after a return getTeeAttestation is called
\* when useTee && this.computeProvider, and submits the task.
FunctionSettles ==
  \E outcome \in {"return", "throw"} :
    /\ IntegrityAt("func")
    /\ LET pi == integrity.processIntegrity
           call == [integrityCall EXCEPT !.funcOutcome = outcome]
       IN  integrityCall' =
             IF outcome = "throw"
             THEN RejectedWith(call,
                    IntegrityVerificationError(<<"Function execution failed: ", "Error">>,
                                               call.functionName))
             ELSE LET done == [call EXCEPT !.result =
                                 ResultOf(call.functionName,
                                          pi.registeredFunctions[call.functionName])]
                  IN  IF call.useTee /\ pi.computeProvider # Null
                      THEN [done EXCEPT !.pc = "submit", !.submitted = @ + 1]
                      ELSE AfterAttestation(pi, done, None)
    /\ UNCHANGED <<integrity, notIntegrity>>

\* await this.computeProvider.submit(taskData) settles
SubmitSettles ==
  \E answer \in {"jobId", "throws"} :
    /\ IntegrityAt("submit")
    /\ integrityCall' =
         IF answer = "throws"
         THEN AttestationGivenUp(integrity.processIntegrity, integrityCall, "error")
         ELSE PollOrTimeout(integrity.processIntegrity, integrityCall)
    /\ UNCHANGED <<integrity, notIntegrity>>

\* await this.computeProvider.status(jobId) settles, after some time
StatusSettles ==
  \E answer \in {"completed", "failed", "running", "throws"}, elapsed \in {0, 1} :
    /\ IntegrityAt("status")
    /\ LET pi == integrity.processIntegrity
           call == [integrityCall EXCEPT !.waited =
                      IF @ + elapsed > MaxWaitTicks THEN MaxWaitTicks ELSE @ + elapsed]
       IN  integrityCall' =
             IF answer = "completed" THEN [call EXCEPT !.pc = "result"]
             ELSE IF answer = "failed" THEN AttestationGivenUp(pi, call, "failed")
             ELSE IF answer = "throws" THEN AttestationGivenUp(pi, call, "error")
             ELSE [call EXCEPT !.pc = "sleep"]
    /\ UNCHANGED <<integrity, notIntegrity>>

\* await this.computeProvider.result(jobId) settles
ResultSettles ==
  \E answer \in {"success", "unsuccessful", "throws"} :
    /\ IntegrityAt("result")
    /\ LET pi == integrity.processIntegrity
       IN  integrityCall' =
             IF answer = "success" THEN [integrityCall EXCEPT !.pc = "attestation"]
             ELSE IF answer = "unsuccessful"
             THEN AttestationGivenUp(pi, integrityCall, "unsuccessful")
             ELSE AttestationGivenUp(pi, integrityCall, "error")
    /\ UNCHANGED <<integrity, notIntegrity>>

\* await this.computeProvider.attestation(jobId) settles
AttestationSettles ==
  \E answer \in {"data", "throws"} :
    /\ IntegrityAt("attestation")
    /\ LET pi == integrity.processIntegrity
       IN  integrityCall' =
             IF answer = "data"
             THEN AfterAttestation(pi, integrityCall, TeeAttestationOf(integrityCall))
             ELSE AttestationGivenUp(pi, integrityCall, "error")
    /\ UNCHANGED <<integrity, notIntegrity>>

\* The setTimeout(resolve, 2000) of the loop fires.
SleepEnds ==
  /\ IntegrityAt("sleep")
  /\ integrityCall' =
       PollOrTimeout(integrity.processIntegrity,
                     [integrityCall EXCEPT !.waited =
                        IF @ + 1 > MaxWaitTicks THEN MaxWaitTicks ELSE @ + 1])
  /\ UNCHANGED <<integrity, notIntegrity>>

\* await this.storageManager.uploadJson(proofData, filename) settles: the cid
\* is put into the proof when there is one; a throw is caught with a warning.
UploadSettles ==
  \E answer \in {"cid", "empty", "throws"} :
    /\ IntegrityAt("upload")
    /\ LET call == [integrityCall EXCEPT !.uploadFailed = (answer = "throws")]
       IN  integrityCall' =
             ReturnedWith(call,
               IF answer = "cid"
               THEN [call.proof EXCEPT !.ipfs_cid = "cid"]
               ELSE call.proof)
    /\ UNCHANGED <<integrity, notIntegrity>>

IntegrityNext ==
  \/ RegisterFunction
  \/ SdkRegisterFunction
  \/ ExecuteWithProof
  \/ ExecuteWithIntegrityProof
  \/ FunctionSettles
  \/ SubmitSettles
  \/ StatusSettles
  \/ ResultSettles
  \/ AttestationSettles
  \/ SleepEnds
  \/ UploadSettles

----------------------------------------------------------------------------
(* Specifications: one per component, the other components at rest         *)

\* No stop() was called and no http.Server made; no ProcessIntegrity built.
ExtrasAtRest ==
  /\ stopCalls = <<>>
  /\ liveServers = 0
  /\ integrity = None
  /\ integrityCall = None

OthersAtRest == SdkAtRest /\ NetworkAtRest /\ ClientAtRest /\ ExtrasAtRest

InitFee == FeeInit /\ ReceiptInit /\ StorageAtRest /\ ServerAtRest /\ PayInit /\ OthersAtRest

SpecFee == InitFee /\ [][FeeNext]_vars

InitReceipt == FeeInit /\ ReceiptInit /\ StorageAtRest /\ ServerAtRest /\ PayInit /\ OthersAtRest

SpecReceipt == InitReceipt /\ [][ReceiptNext]_vars

InitStorage == FeeInit /\ ReceiptInit /\ StorageInit /\ ServerAtRest /\ PayInit /\ OthersAtRest

SpecStorage == InitStorage /\ [][StorageNext]_vars

InitServer == FeeInit /\ ReceiptInit /\ StorageAtRest /\ ServerInit /\ PayInit /\ OthersAtRest

SpecServer == InitServer /\ [][ServerNext]_vars

InitPay == FeeInit /\ ReceiptInit /\ StorageAtRest /\ ServerAtRest /\ PayInit /\ OthersAtRest

SpecPay == InitPay /\ [][PayNext]_vars

InitPaywall ==
  /\ FeeInit /\ ReceiptInit /\ StorageAtRest /\ PaywallInit /\ PayInit
  /\ SdkAtRest /\ NetworkAtRest /\ ClientAtRest
  /\ integrity = None /\ integrityCall = None

SpecPaywall == InitPaywall /\ [][PaywallNext]_vars

InitIntegrity ==
  /\ FeeInit /\ ReceiptInit /\ StorageAtRest /\ ServerAtRest /\ PayInit
  /\ SdkAtRest /\ NetworkAtRest /\ ClientAtRest
  /\ stopCalls = <<>> /\ liveServers = 0
  /\ IntegrityInit

SpecIntegrity == InitIntegrity /\ [][IntegrityNext]_vars

\* The provider and the timer answer in the end: every await of the
\* attestation settles.
SpecIntegrityLive ==
  /\ InitIntegrity /\ [][IntegrityNext]_vars
  /\ WF_vars(SubmitSettles)
  /\ WF_vars(StatusSettles)
  /\ WF_vars(ResultSettles)
  /\ WF_vars(AttestationSettles)
  /\ WF_vars(SleepEnds)

InitSdk ==
  /\ FeeInit /\ ReceiptInit /\ StorageAtRest /\ ServerAtRest /\ PayInit
  /\ SdkInit /\ NetworkAtRest /\ ClientAtRest /\ ExtrasAtRest

SpecSdk == InitSdk /\ [][SdkNext]_vars

InitNetwork ==
  /\ FeeInit /\ ReceiptInit /\ StorageAtRest /\ ServerAtRest /\ PayInit
  /\ SdkAtRest /\ NetworkInit /\ ClientAtRest /\ ExtrasAtRest

SpecNetwork == InitNetwork /\ [][NetworkNext]_vars

InitClient ==
  /\ FeeInit /\ ReceiptInit /\ StorageAtRest /\ ServerAtRest /\ PayInit
  /\ SdkAtRest /\ NetworkAtRest /\ ClientInit /\ ExtrasAtRest

SpecClient == InitClient /\ [][ClientNext]_vars

----------------------------------------------------------------------------
(* Properties of the fee arithmetic                                        *)

\* C5: calculateTotalCost(amount, currency) returns fee = amount * p / 100
\* and total = amount + fee in the currency's minor units (18 decimals for
\* ETH, 6 otherwise), truncated once, for every fee percentage p in [0,100];
\* with p = 2.5, "10.0" USDC gives fee "0.25" and total "10.25".
C5_FeeIsPercentageOfAmount ==
  (feeCall.kind = "cost" /\ feeCall.outcome = "ok") =>
    LET decimals == IF feeCall.currency = "ETH" THEN 18 ELSE 6
        exactFee == MulDivQR(feeCall.amountUnits, feeCall.pct, 100 * PctScale)[1]
    IN  /\ feeCall.feeUnits = exactFee
        /\ feeCall.totalUnits = feeCall.amountUnits + exactFee
        /\ feeCall.fee = FormatUnits(exactFee, decimals)
        /\ feeCall.total = FormatUnits(feeCall.amountUnits + exactFee, decimals)
        /\ (feeCall.amountIn = Str_10_0 /\ feeCall.currency = "USDC"
              /\ feeCall.pct = Pct(25, 10))
             => (feeCall.fee = Str_0_25 /\ feeCall.total = Str_10_25)

\* C6: the SDK's calculateTotalCost("10.0", "USDC") returns exactly amount
\* "10.0", fee "0.25" and total "10.25"; in general the returned amount is
\* the caller's amount string.
C6_SdkCostStrings ==
  (/\ feeCall.kind = "sdkCost"
   /\ ParseUnits(feeCall.amountIn, 6).ok
   /\ FormatUnits(ParseUnits(feeCall.amountIn, 6).value, 6) = feeCall.amountIn) =>
    /\ feeCall.amount = feeCall.amountIn
    /\ (feeCall.amountIn = Str_10_0 /\ feeCall.currency = "USDC")
         => (feeCall.fee = Str_0_25 /\ feeCall.total = Str_10_25)

\* C7: setFeePercentage(p) throws and leaves the percentage unchanged when
\* p < 0 or p > 100, and otherwise succeeds and getFeePercentage() returns
\* p, after any sequence of calls; a fresh manager reports 2.5.
C7_SetFeePercentage ==
  /\ feeCall.kind = "none" => GetFeePercentage = Pct(25, 10)
  /\ feeCall.kind = "set" =>
       IF feeCall.arg < 0 \/ feeCall.arg > 100 * PctScale
       THEN feeCall.outcome = "throw" /\ GetFeePercentage = feeCall.before
       ELSE feeCall.outcome = "ok" /\ GetFeePercentage = feeCall.arg

\* C7's case: a set call out of range is refused after an earlier call
\* changed the percentage.
C7_Witness ==
  /\ feeCall.kind = "set"
  /\ feeCall.arg > 100 * PctScale
  /\ feeCall.outcome = "throw"
  /\ feeCall.before = Pct(5, 1)
  /\ GetFeePercentage = Pct(5, 1)

----------------------------------------------------------------------------
(* Properties of receipts                                                  *)

\* The receipt is what createReceipt returns for the payment it records.
IsCreatedReceipt(r) ==
  /\ r.from # Undefined
  /\ r.paymentId = Keccak256Json([from |-> r.from, to |-> r.to, amount |-> r.amount,
                                  currency |-> r.currency, timestamp |-> r.timestamp,
                                  txHash |-> r.txHash])

IsSigned(r) == r.signature.kind = "sig"

\* The key that signed r controls the account r.from names.
SignedByFrom(r) ==
  /\ r.from # Undefined
  /\ AccountOf(r.signature.key) = r.from.account

\* C8: verifyReceipt(signReceipt(createReceipt(payment))) is true for every
\* well-formed payment whose from is the address of the manager's signer.
C8_ReceiptRoundTrip ==
  (/\ verifyResult.kind = "verified"
   /\ IsSigned(receipt)
   /\ altered = {}
   /\ IsCreatedReceipt(receipt)
   /\ SignedByFrom(receipt))
    => verifyResult.value = "true"

\* C8's case: a receipt whose from is the signer's address in lower case
\* was created, signed and verified.
C8_Witness ==
  /\ verifyResult.kind = "verified"
  /\ IsSigned(receipt)
  /\ altered = {}
  /\ IsCreatedReceipt(receipt)
  /\ SignedByFrom(receipt)
  /\ receipt.from.casing = "lower"
  /\ verifyResult.value = "true"

\* C9: verifyReceipt of a signed receipt is false when any of paymentId,
\* from, to, amount, currency, timestamp, txHash was altered after signing,
\* and false when the signing key is not the one of the claimed from.
C9_TamperDetected ==
  (/\ verifyResult.kind = "verified"
   /\ IsSigned(receipt)
   /\ \/ altered \cap (ReceiptFields \ {"signature"}) # {}
      \/ ~SignedByFrom(receipt))
    => verifyResult.value = "false"

\* C10: verifyReceipt never raises: it returns a boolean for every receipt,
\* and false whenever signature recovery or the comparison throws.
C10_VerifyNeverRaises ==
  verifyResult.kind = "verified" =>
    /\ verifyResult.value \in {"true", "false"}
    /\ VerifyReceiptTry(receipt) = "throw" => verifyResult.value = "false"

\* C10's case: a receipt with the empty signature createReceipt leaves, or
\* with a string that is no signature, was verified.
C10_Witness ==
  /\ verifyResult.kind = "verified"
  /\ receipt.signature \in {EmptySignature, GarbageSignature}
  /\ verifyResult.value = "false"

----------------------------------------------------------------------------
(* Properties of the storage fallback                                      *)

\* The position in the list of the first backend whose upload succeeds in
\* this call, or 0 when every upload fails.
FirstSuccess(list, outcome) ==
  IF \E i \in 1..Len(list) : outcome[list[i]] = "ok"
  THEN CHOOSE i \in 1..Len(list) :
         outcome[list[i]] = "ok" /\ \A j \in 1..(i - 1) : outcome[list[j]] = "fail"
  ELSE 0

\* C3: with N backends in list order, when the first M fail on put and
\* backend M+1 succeeds, put returns backend M+1's result without raising;
\* it raises a StorageError only when all N fail or none is configured.
C3_PutFallback ==
  storageCall.kind = "put" =>
    LET m == FirstSuccess(backends, storageCall.outcome)
    IN  IF m > 0
        THEN storageCall.result = StorageResultOf(backends[m], storageCall.data)
        ELSE storageCall.result.kind = "StorageError"

\* C3's case: three or more backends, the first two failed, the third
\* answered and its result was returned.
C3_Witness ==
  /\ storageCall.kind = "put"
  /\ Len(backends) >= 3
  /\ storageCall.outcome[backends[1]] = "fail"
  /\ storageCall.outcome[backends[2]] = "fail"
  /\ storageCall.result.kind = "result"
  /\ storageCall.result.provider = backends[3]

----------------------------------------------------------------------------
(* Properties of the paywall server                                        *)

\* The request has an X-Payment-Token or an X-Payment-Tx header with a value.
HasPaymentHeader(r) ==
  \/ r.input.headers.token \notin {Undefined, EmptyString}
  \/ r.input.headers.tx \notin {Undefined, EmptyString}

\* C1: the handler of an endpoint runs for a request only if the request
\* carried a payment header and verifyPayment returned true for it; a
\* request to an endpoint with no payment header, or whose payment fails
\* verification, is answered 402 and the handler is never called for it.
C1_HandlerOnlyAfterPayment ==
  \A c \in Connections :
    requests[c] # None =>
      LET r == requests[c]
      IN  /\ r.handlerCalls > 0 => (HasPaymentHeader(r) /\ r.verified = "true")
          /\ (r.endpoint # None /\ (~HasPaymentHeader(r) \/ r.verified = "false")) =>
               /\ r.handlerCalls = 0
               /\ r.pc = "done" =>
                    (Len(r.responses) = 1 /\ r.responses[1].status = 402)

\* C1's case: a request paying with a transaction hash was verified and
\* its handler ran once.
C1_Witness ==
  \E c \in Connections :
    /\ requests[c] # None
    /\ requests[c].pc = "done"
    /\ requests[c].identifier = TxA
    /\ requests[c].verified = "true"
    /\ requests[c].handlerCalls = 1
    /\ requests[c].responses[1].status = 200

\* What the handler of r returns for the body r carries.
ExpectedData(r) ==
  HandlerResult(r.endpoint.handler,
                IF r.input.method = "GET" \/ r.input.body = ""
                THEN EmptyObject
                ELSE [kind |-> "object", text |-> r.input.body])

C13_ServerEnvelope ==
  \A c \in Connections :
    (/\ requests[c] # None
     /\ requests[c].pc = "done"
     /\ requests[c].endpoint # None
     /\ ~HasPaymentHeader(requests[c])
     /\ requests[c].responses[1].status = 402)
    => LET res == requests[c].responses[1]
       IN  /\ res.headers.xPaymentRequired = "x402"
           /\ DOMAIN res.body = {"error", "paymentRequired"}
           /\ DOMAIN res.body.paymentRequired =
                {"protocol", "version", "amount", "currency", "recipient",
                 "description", "network", "methods"}
           /\ res.body.paymentRequired.protocol = "x402"
           /\ res.body.paymentRequired.methods = <<"crypto">>

----------------------------------------------------------------------------
(* Properties of the two-leg settlement                                    *)

\* The call is over, its main transfer was confirmed and its fee transfer
\* was refused at submission or failed on chain.
FeeLegFailedAfterMain ==
  /\ payCall # None
  /\ payCall.pc = "done"
  /\ payCall.mainLeg = "confirmed"
  /\ payCall.feeLeg \in {"refused", "failed"}

\* C4 as stated: when the main transfer succeeds and the fee transfer then
\* fails, executePayment does not reject: the caller receives a payment
\* result with the main transaction hash and no fee transaction hash.
C4_FeeFailureStillSucceeds ==
  FeeLegFailedAfterMain =>
    /\ payCall.result.kind \in {"proof", "payment"}
    /\ payCall.result.kind = "proof" =>
         /\ payCall.result.main_transaction_hash = MainHash
         /\ payCall.result.fee_transaction_hash = UndefinedHash
    /\ payCall.result.kind = "payment" =>
         /\ payCall.result.txHash = MainHash
         /\ payCall.result.feeTxHash = UndefinedHash

\* C4, amended: when the main transfer succeeds and the fee transfer then
\* fails, executePayment rejects (X402PaymentManager.ts with a PaymentError
\* 'x402 payment failed: ...') and the caller receives no payment result,
\* although the main transfer was submitted and confirmed.
C4_FeeFailureRejects ==
  FeeLegFailedAfterMain =>
    /\ payCall.result.kind = "error"
    /\ payCall.input.impl = "X402PaymentManager" =>
         /\ payCall.result.name = "PaymentError"
         /\ payCall.result.message[1] = "x402 payment failed: "
    /\ Len(submitted) >= 1
    /\ submitted[1].leg = "main"
    /\ submitted[1].hash = MainHash
    /\ submitted[1].to = RecipientAddress

\* C4's case: a USDC payment of the SDK's manager whose main transfer was
\* confirmed and whose fee transfer reverted.
C4_Witness ==
  /\ FeeLegFailedAfterMain
  /\ payCall.input.impl = "X402PaymentManager"
  /\ payCall.asset = "USDC"
  /\ payCall.feeLeg = "failed"
  /\ Len(submitted) = 2
  /\ payCall.result.kind = "error"

\* C11: every result of X402PaymentManager.createPaymentRequirements of
\* X402Payment.ts has statusCode 402, header X-Payment-Required "x402", and a
\* body with exactly the keys error and paymentRequired, whose protocol is
\* "x402" and whose amount and currency are the arguments (the currency is
\* "USDC" when the argument was left out).
C11_RequirementsEnvelope ==
  feeCall.kind = "requirements" =>
    /\ feeCall.result.statusCode = 402
    /\ feeCall.result.headers.xPaymentRequired = "x402"
    /\ DOMAIN feeCall.result.body = {"error", "paymentRequired"}
    /\ feeCall.result.body.paymentRequired.protocol = "x402"
    /\ feeCall.result.body.paymentRequired.amount = feeCall.input.amount
    /\ feeCall.result.body.paymentRequired.currency =
         (IF feeCall.input.currency = OmittedArg THEN "USDC"
          ELSE feeCall.input.currency)

\* a call with an unparsable amount, an unsupported currency and no description
C11_Witness ==
  /\ feeCall.kind = "requirements"
  /\ feeCall.input.amount = <<"a", "b", "c">>
  /\ feeCall.input.currency = "DAI"
  /\ feeCall.input.description = OmittedArg
  /\ feeCall.result.statusCode = 402
  /\ feeCall.result.body.paymentRequired.description = DefaultDescription

----------------------------------------------------------------------------
(* Properties of the SDK's x402 entry points                                *)

\* C12: on an SDK with payments enabled, createX402PaymentRequirements("5.0",
\* "USDC", desc) returns an object with statusCode 402, a headers field, and
\* a body whose paymentRequired.amount is "5.0" and paymentRequired.currency
\* is "USDC".
C12_SdkRequirementsEnvelope ==
  (/\ sdkCall # None
   /\ sdkCall.op = "createX402PaymentRequirements"
   /\ sdk.x402PaymentManager = "defined"
   /\ sdkCall.input.amount = <<"5", ".", "0">>
   /\ sdkCall.input.currency = "USDC"
   /\ sdkCall.input.serviceDescription = "Premium AI Analysis Service")
  => /\ sdkCall.outcome = "return"
     /\ {"statusCode", "headers", "body"} \subseteq DOMAIN sdkCall.result
     /\ sdkCall.result.statusCode = 402
     /\ "paymentRequired" \in DOMAIN sdkCall.result.body
     /\ sdkCall.result.body.paymentRequired.amount = <<"5", ".", "0">>
     /\ sdkCall.result.body.paymentRequired.currency = "USDC"

ThrewNotEnabled ==
  /\ sdkCall.outcome = "throw"
  /\ sdkCall.error = NotEnabledMessage

\* C15: on an SDK constructed with enablePayments: false, calculateTotalCost,
\* createX402PaymentRequest, executeX402Payment, createX402PaymentRequirements,
\* createX402PaywallServer and getX402PaymentHistory all throw instead of
\* computing a result; with payments enabled none of them fails for that
\* reason.
C15_DisabledPaymentsThrow ==
  /\ (sdk.config.enablePayments = "false" /\ sdkCall # None) => ThrewNotEnabled
  /\ (sdk.config.enablePayments = "false") => feeCall.kind # "sdkCost"
  /\ (sdk.config.enablePayments # "false" /\ sdkCall # None) => ~ThrewNotEnabled

----------------------------------------------------------------------------
(* Properties of the network lookup                                         *)

\* the message of the error names the network asked for
MessageContains(message, name) == \E i \in 1..Len(message) : message[i] = name

\* C14: getNetworkInfo(name) returns, for every supported network name, an
\* info object with a positive chainId and a contracts.identity address
\* starting with 0x; for every name that is not supported it throws an error
\* whose message contains that name; and isNetworkSupported(name) is true
\* exactly for the names on which getNetworkInfo does not throw.
C14_NetworkLookupTotal ==
  (networkCall # None /\ networkCall.op = "getNetworkInfo") =>
    LET name == networkCall.name
        r == networkCall.result
    IN  /\ name \in GetSupportedNetworks(NETWORK_INFO) =>
             /\ r.outcome = "return"
             /\ r.value.chainId > 0
             /\ r.value.contracts.identity[1] = "0x"
        /\ name \notin GetSupportedNetworks(NETWORK_INFO) =>
             /\ r.outcome = "throw"
             /\ MessageContains(r.message, name)
        /\ IsNetworkSupported(NETWORK_INFO, name) <=> r.outcome # "throw"

----------------------------------------------------------------------------
(* Properties of the ERC8004Client                                          *)

----------------------------------------------------------------------------
(* Further properties of the two-leg settlement                             *)

\* executePayment has returned a result to its caller.
PayReturned ==
  /\ payCall # None
  /\ payCall.pc = "done"
  /\ payCall.result.kind \in {"proof", "payment"}

\* C17: in executePayment the main transfer is submitted and its
\* confirmation awaited before the fee transfer is submitted; the fee
\* transfer is never submitted if the main transfer fails; and a result is
\* returned only after every submitted leg has been confirmed.
C17_LegOrdering ==
  payCall # None =>
    /\ payCall.feeLeg # "none" => payCall.mainLeg = "confirmed"
    /\ payCall.mainLeg \in {"refused", "failed"} =>
         /\ payCall.feeLeg = "none"
         /\ \A i \in 1..Len(submitted) : submitted[i].leg # "fee"
    /\ \A i \in 1..Len(submitted) :
         submitted[i].leg = IF i = 1 THEN "main" ELSE "fee"
    /\ PayReturned =>
         /\ payCall.mainLeg = "confirmed"
         /\ payCall.feeLeg \in {"none", "confirmed"}
         /\ Len(submitted) = IF payCall.feeLeg = "none" THEN 1 ELSE 2

\* a native payment of the SDK's manager returned its proof after both
\* legs were confirmed
C17_Witness ==
  /\ PayReturned
  /\ payCall.input.impl = "X402PaymentManager"
  /\ payCall.asset = "ETH"
  /\ payCall.mainLeg = "confirmed"
  /\ payCall.feeLeg = "confirmed"
  /\ Len(submitted) = 2

\* The sum of two non-negative integers written as their decimal digits.
RECURSIVE AddDigits(_, _, _)
AddDigits(a, b, carry) ==
  IF Len(a) = 0
  THEN IF carry = 0 THEN <<>> ELSE IntToDigits(carry)
  ELSE LET n == Len(a)
           d == DigitVal(a[n]) + DigitVal(b[n]) + carry
       IN  AddDigits(SubSeq(a, 1, n - 1), SubSeq(b, 1, n - 1), d \div 10)
             \o IntToDigits(d % 10)

AddText(a, b) ==
  LET m == IF Len(a) > Len(b) THEN Len(a) ELSE Len(b)
  IN  StripLeadingZeros(
        AddDigits(Zeros(m - Len(a)) \o a, Zeros(m - Len(b)) \o b, 0))

\* The amount the caller asked to pay, in minor units of the asset sent.
RequestedUnits ==
  ParseUnitsText(payCall.input.amount, IF payCall.asset = "ETH" THEN 18 ELSE 6).text

\* C18: in every executePayment implementation the recipient is sent
\* amount - fee and the treasury the fee, so that the two legs together debit
\* the payer exactly the requested amount in minor units, never amount + fee.
C18_FeeDeducted ==
  (payCall # None /\ Len(submitted) >= 1) =>
    /\ submitted[1].to = RecipientAddress
    /\ AddText(submitted[1].value, payCall.feeValue) = RequestedUnits
    /\ Len(submitted) = 2 =>
         AddText(submitted[1].value, submitted[2].value) = RequestedUnits

\* this.treasuryAddress of the manager that runs the call
ManagerTreasury ==
  IF payCall.input.impl = "X402PaymentManager"
  THEN SdkTreasuryAddress(payCall.input.network)
  ELSE DefaultTreasuryAddress

\* the fee transaction hash of the result returned
ResultFeeHash ==
  IF payCall.result.kind = "proof" THEN payCall.result.fee_transaction_hash
  ELSE payCall.result.feeTxHash

\* C19: a payment performs at most two transfers: exactly one main transfer
\* to the recipient, and a fee transfer exactly when the fee is > 0, whose
\* destination is the manager's treasury address; when the fee is 0 no fee
\* transfer is made and the result has no fee transaction hash.
C19_AtMostTwoTransfers ==
  payCall # None =>
    /\ Len(submitted) <= 2
    /\ \A i \in 1..Len(submitted) :
         /\ submitted[i].leg = "main" => (i = 1 /\ submitted[i].to = RecipientAddress)
         /\ submitted[i].leg = "fee" =>
              /\ i = 2
              /\ submitted[i].to = ManagerTreasury
              /\ PositiveNumber(submitted[i].value)
    /\ PayReturned =>
         /\ Len(submitted) >= 1
         /\ submitted[1].leg = "main"
         /\ (Len(submitted) = 2) <=> PositiveNumber(payCall.feeValue)
         /\ ResultFeeHash = IF PositiveNumber(payCall.feeValue)
                            THEN FeeHash ELSE UndefinedHash

\* a USDC payment with no fee returned after its one transfer
C19_Witness ==
  /\ PayReturned
  /\ payCall.asset = "USDC"
  /\ ~PositiveNumber(payCall.feeValue)
  /\ Len(submitted) = 1
  /\ submitted[1].leg = "main"
  /\ ResultFeeHash = UndefinedHash

\* The currency is none the manager running the call supports.
UnsupportedCurrency ==
  IF payCall.input.impl = "X402PaymentManager"
  THEN ToUpperCase(payCall.input.currency) \notin {"ETH", "NATIVE", "USDC"}
  ELSE payCall.input.currency \notin {"ETH", "USDC"}

\* The payment is in USDC and the manager knows no USDC contract on its
\* network.
UsdcUnavailable ==
  IF payCall.input.impl = "X402PaymentManager"
  THEN /\ ToUpperCase(payCall.input.currency) = "USDC"
       /\ SdkUsdcAddress(payCall.input.network) = ""
  ELSE /\ payCall.input.currency = "USDC"
       /\ GetUSDCAddress(payCall.input.network) = ZeroAddressText

\* C20: executePayment with a currency that is not supported, or with USDC
\* on a network that has no USDC contract address, fails with an error (a
\* PaymentError in the SDK's manager) and submits no transfer at all, neither
\* the main leg nor the fee leg.
C20_UnsupportedSubmitsNothing ==
  (payCall # None /\ (UnsupportedCurrency \/ UsdcUnavailable)) =>
    /\ submitted = <<>>
    /\ payCall.mainLeg = "none"
    /\ payCall.feeLeg = "none"
    /\ payCall.pc \in {"getNetwork", "done"}
    /\ payCall.pc = "done" =>
         /\ payCall.result.kind = "error"
         /\ payCall.result.name =
              IF payCall.input.impl = "X402PaymentManager"
              THEN "PaymentError" ELSE "Error"

\* the SDK's manager refused a USDC payment on a network without USDC
C20_Witness ==
  /\ payCall # None
  /\ payCall.input.impl = "X402PaymentManager"
  /\ payCall.input.network = "0g-testnet"
  /\ UsdcUnavailable
  /\ payCall.pc = "done"
  /\ payCall.result.kind = "error"
  /\ payCall.result.message =
       <<"x402 payment failed: ", "USDC not supported on ", "0g-testnet">>
  /\ submitted = <<>>

----------------------------------------------------------------------------
(* Further properties of the storage manager                                *)

\* The backends of the list other than the preferred one, in list order.
Remaining == SelectSeq(backends, LAMBDA b : b # preferredBackend)

\* s is the first Len(s) elements of t
IsPrefix(s, t) == Len(s) <= Len(t) /\ SubSeq(t, 1, Len(s)) = s

\* C21: one put call attempts the preferred backend first and then the
\* remaining backends in list order, each at most once and the preferred one
\* never again; it stops at the first success; and it changes neither the
\* backend list nor the preferred backend.
C21_PutAttemptOrder ==
  /\ [](storageCall.kind = "put" =>
          LET a == storageCall.attempts
          IN  /\ Len(a) >= 1
              /\ a[1] = preferredBackend
              /\ IsPrefix(Tail(a), Remaining)
              /\ \A i, j \in 1..Len(a) : a[i] = a[j] => i = j
              /\ \A i \in 1..(Len(a) - 1) : storageCall.outcome[a[i]] = "fail"
              /\ storageCall.result.kind = "result" =>
                   /\ storageCall.outcome[a[Len(a)]] = "ok"
                   /\ storageCall.result.provider = a[Len(a)]
              /\ storageCall.result.kind # "result" =>
                   /\ storageCall.outcome[a[Len(a)]] = "fail"
                   /\ Tail(a) = Remaining)
  /\ [][backends' = backends /\ preferredBackend' = preferredBackend]_vars

\* the preferred backend and the first fallback failed, the second fallback
\* stored the data, and the fourth backend was not attempted
C21_Witness ==
  /\ storageCall.kind = "put"
  /\ Len(backends) = 4
  /\ storageCall.attempts = <<backends[1], backends[2], backends[3]>>
  /\ storageCall.result.kind = "result"
  /\ storageCall.result.provider = backends[3]

\* The last put attempted every backend and each of them threw.
AllBackendsFailed ==
  /\ storageCall.kind = "put"
  /\ storageCall.result.kind = "StorageError"
  /\ Len(storageCall.attempts) >= 1

\* C22 as stated: when every backend fails, the terminal StorageError
\* reports the error of the last backend attempted.
C22_LastErrorReported ==
  AllBackendsFailed =>
    storageCall.result.cause = storageCall.attempts[Len(storageCall.attempts)]

\* C22, amended: when every backend fails, the terminal StorageError 'All
\* storage backends failed: ...' reports the error of the preferred backend,
\* the first one attempted; the errors of the fallback backends are
\* suppressed.
C22_PreferredErrorReported ==
  AllBackendsFailed =>
    /\ storageCall.result.message = "All storage backends failed"
    /\ storageCall.result.cause = storageCall.attempts[1]
    /\ storageCall.result.cause = preferredBackend

\* local IPFS and then Pinata failed: the error names local IPFS
C22_Witness ==
  /\ AllBackendsFailed
  /\ storageCall.attempts = <<"local-ipfs", "pinata">>
  /\ storageCall.result.cause = "local-ipfs"

\* get asked the preferred backend and nothing else.
GetConsultsPreferredOnly ==
  storageCall.kind = "get" =>
    /\ storageCall.attempts = <<preferredBackend>>
    /\ storageCall.answer = "ok" => storageCall.result = BufferOf(preferredBackend, storageCall.cid)
    /\ storageCall.answer = "fail" =>
         /\ storageCall.result.kind = "StorageError"
         /\ storageCall.result.cause = preferredBackend

\* none of PINATA_JWT, IRYS_WALLET_KEY and ZEROG_TESTNET_PRIVATE_KEY is set
NothingConfigured == backends = DetectedBackends([pinata |-> FALSE, irys |-> FALSE, zerog |-> FALSE])

----------------------------------------------------------------------------
(* Further properties of the paywall server                                *)

\* In this step a request that waited for the chain learns that the manager
\* verified id, and the proof made for its endpoint goes into the cache.
VerifiedNow(id) ==
  \E c \in DOMAIN requests :
    /\ requests[c] # None
    /\ requests[c].pc = "verifying"
    /\ requests[c].identifier = id
    /\ requests'[c].verified = "true"
    /\ paymentCache'[id] = MockProofOf(id, requests[c].endpoint)

\* C23 as stated: the payment cache is append-only; an entry is added only
\* after the chain verification of its identifier returned true, and the
\* entry of a cached identifier is never removed and its proof never
\* replaced.
C23_CacheAppendOnly ==
  [][\A id \in Identifiers :
       /\ paymentCache[id] # None => paymentCache'[id] = paymentCache[id]
       /\ (paymentCache[id] = None /\ paymentCache'[id] # None)
            => VerifiedNow(id)]_vars

\* C23, amended: an entry is written only after the chain verification of
\* its identifier returned true, and what is written is the proof made for
\* the endpoint of the verifying request, also over an entry that is there
\* already; the only other change is clearPaymentCache(), which removes
\* every entry.
C23_CacheWrittenWhenVerifiedOrCleared ==
  [][\A id \in Identifiers :
       paymentCache'[id] # paymentCache[id] =>
         \/ VerifiedNow(id)
         \/ \A other \in Identifiers : paymentCache'[other] = None]_vars

\* a request was answered 200 for an identifier the chain verified, and the
\* cache holds that identifier no longer
C23_Witness ==
  \E c \in DOMAIN requests :
    /\ requests[c] # None
    /\ requests[c].pc = "done"
    /\ requests[c].verified = "true"
    /\ requests[c].responses[Len(requests[c].responses)].status = 200
    /\ paymentCache[requests[c].identifier] = None

\* The endpoint configurations requirePayment can register.
EndpointConfigs ==
  { EndpointConfigOf(reg.amount, "data", reg.currency, handler) :
      reg \in RegisterInputs, handler \in Handlers }

\* handleRequest is called on connection c in this step, with a payment
\* identifier, for an endpoint that exists.
Arrives(c) ==
  /\ IsFree(c)
  /\ requests'[c] # requests[c]
  /\ requests'[c].identifier # Undefined

\* The request on c is turned down as not paid.
TurnedDown(r) ==
  /\ r.pc = "done"
  /\ r.responses[Len(r.responses)] =
       ErrorResponse(402, "Invalid or insufficient payment")

\* The cache holds a proof for the identifier of r that does not fit the
\* endpoint of r.
CachedUnfit(cache, r) ==
  /\ cache[r.identifier] # None
  /\ ~CacheHit(cache, r.identifier, r.endpoint)

\* C26: the amount and currency check on a cached proof never turns a request
\* down by itself.  A request whose identifier is cached with a proof that
\* does not fit the endpoint goes on to the chain check, made with a proof
\* built from the amount and currency of the endpoint asked; the manager's
\* answer does not depend on that amount or currency, so a transaction hash
\* is accepted at any endpoint when the chain check succeeds; accepting an
\* identifier leaves it in the cache, and a later request it fits is accepted
\* from the cache.
C26_CacheCheckNeverRejects ==
  /\ [][\A c \in DOMAIN requests :
          /\ (Arrives(c) /\ CachedUnfit(paymentCache, requests'[c]))
               => requests'[c].pc = "verifying"
          /\ (Arrives(c) /\ LooksLikeTxHash(requests'[c].identifier))
               => ~TurnedDown(requests'[c])
          /\ (Arrives(c) /\ CacheHit(paymentCache, requests'[c].identifier,
                                     requests'[c].endpoint))
               => requests'[c].verified = "true"
          /\ (requests[c] # None /\ requests'[c] # None
              /\ requests[c].verified = "none" /\ requests'[c].verified = "true")
               => /\ paymentCache'[requests'[c].identifier] # None
                  /\ requests[c].pc = "verifying" =>
                       paymentCache'[requests'[c].identifier] =
                         MockProofOf(requests'[c].identifier, requests'[c].endpoint)]_vars
  /\ [](\A view \in ChainViews, id \in Identifiers, ep1, ep2 \in EndpointConfigs :
          ManagerVerifyPayment(view, MockProofOf(id, ep1)) =
            ManagerVerifyPayment(view, MockProofOf(id, ep2)))

\* a request whose identifier is cached with a lower amount than its endpoint
\* asks was not turned down: it waits for the chain check
C26_Witness ==
  \E c \in DOMAIN requests :
    /\ requests[c] # None
    /\ requests[c].pc = "verifying"
    /\ paymentCache[requests[c].identifier] # None
    /\ paymentCache[requests[c].identifier].amount < requests[c].endpoint.amount

----------------------------------------------------------------------------
(* Requests outstanding at the same time, and the life of the server       *)

\* The proof the cache holds for the identifier suffices for endpoint ep.
Suffices(proof, ep) ==
  /\ proof # None
  /\ proof.amount >= ep.amount
  /\ proof.currency = ep.currency

Answered200(r) ==
  /\ r # None
  /\ r.pc = "done"
  /\ r.responses[Len(r.responses)].status = 200

\* In this step the request on c learns that its payment is valid.
BecomesVerified(c) ==
  /\ requests'[c] # None
  /\ requests'[c] # requests[c]
  /\ requests'[c].verified = "true"
  /\ (Arrives(c) \/ requests[c].verified = "none")

\* C25: however the requests of two connections interleave at their waits
\* for the chain, the cache only ever takes an identifier in a step in which
\* the chain check of that identifier answered true, and what it holds is
\* the proof made for a transaction hash and an endpoint; a request is
\* answered 200 only when its payment was found valid, which happens either
\* on arrival, from a cached proof of its own identifier that suffices for
\* its endpoint, or in the step in which the chain check of its own
\* identifier, made for that request, answered true.
C25_ConcurrentVerification ==
  /\ [](\A id \in Identifiers :
          paymentCache[id] # None =>
            /\ LooksLikeTxHash(id)
            /\ \E ep \in EndpointConfigs : paymentCache[id] = MockProofOf(id, ep))
  /\ [][/\ \A id \in Identifiers :
             (paymentCache'[id] # None /\ paymentCache'[id] # paymentCache[id])
               => VerifiedNow(id)
        /\ \A c \in DOMAIN requests :
             /\ (requests'[c] # requests[c] /\ Answered200(requests'[c]))
                  => requests'[c].verified = "true"
             /\ BecomesVerified(c) =>
                  \/ /\ Arrives(c)
                     /\ Suffices(paymentCache[requests'[c].identifier],
                                 requests'[c].endpoint)
                  \/ /\ ~Arrives(c)
                     /\ requests[c].pc = "verifying"
                     /\ paymentCache'[requests[c].identifier] =
                          MockProofOf(requests[c].identifier, requests[c].endpoint)]_vars

\* one request still waits for the chain while another one, sent with the
\* same identifier, was verified and answered 200 meanwhile: the cache now
\* holds a proof that suffices for the endpoint of the waiting request
C25_Witness ==
  \E a, b \in DOMAIN requests :
    /\ a # b
    /\ requests[a] # None /\ requests[b] # None
    /\ requests[a].pc = "verifying"
    /\ Answered200(requests[b])
    /\ requests[b].verified = "true"
    /\ requests[a].identifier = requests[b].identifier
    /\ Suffices(paymentCache[requests[a].identifier], requests[a].endpoint)

\* C28: start() does nothing while the server field is set, so there is never
\* more than one http.Server; the field goes back to null only in the step
\* in which the close callback of a pending stop() resolves it; a server that
\* is being closed stays in the field until then and is not replaced by a
\* start(); and a stop() called without a server is resolved at once and
\* leaves the field null.
C28_ServerLifecycle ==
  /\ [](liveServers <= 1 /\ (Running <=> liveServers = 1))
  /\ [][/\ server # Null => liveServers' <= liveServers
        /\ server = "closing" => server' \in {"closing", Null}
        /\ (server # Null /\ server' = Null) =>
             /\ liveServers' = 0
             /\ \E i \in DOMAIN stopCalls :
                  stopCalls[i] = "pending" /\ stopCalls'[i] = "resolved"
        /\ (server = Null /\ Len(stopCalls') > Len(stopCalls)) =>
             /\ stopCalls'[Len(stopCalls')] = "resolved"
             /\ server' = Null]_vars

\* a stop() is pending because a request still waits for the chain; the
\* server is in the field, where a start() finds it
C28_Witness ==
  /\ server = "closing"
  /\ stopCalls = <<"pending">>
  /\ liveServers = 1
  /\ \E c \in DOMAIN requests : requests[c] # None /\ requests[c].pc = "verifying"

----------------------------------------------------------------------------
(* Properties of process integrity                                         *)

Registered(pi, name) ==
  IF name \in FunctionKeys THEN pi.registeredFunctions[name] # Null ELSE FALSE

\* A call of executeWithProof starts in this step.
CallStarts ==
  /\ IntegrityIdle
  /\ integrityCall' # integrityCall

\* C24: executeWithProof with a name that is not registered rejects with the
\* IntegrityVerificationError 'Function not registered: <name>' and calls no
\* function, submits nothing to the compute provider and uploads no proof;
\* when the function of a registered name throws, the call rejects with the
\* IntegrityVerificationError 'Function execution failed: ...' and has no
\* proof.
C24_UnregisteredOrThrowingRejects ==
  /\ [][(/\ CallStarts
         /\ integrity.processIntegrity # None
         /\ ~Registered(integrity.processIntegrity, integrityCall'.functionName))
          => /\ integrityCall'.pc = "rejected"
             /\ integrityCall'.error =
                  IntegrityVerificationError(
                    <<"Function not registered: ", integrityCall'.functionName>>,
                    integrityCall'.functionName)
             /\ integrityCall'.executed = 0
             /\ integrityCall'.submitted = 0
             /\ integrityCall'.uploads = 0
             /\ integrityCall'.proof = None]_vars
  /\ [](integrityCall # None =>
          /\ integrityCall.funcOutcome = "throw" =>
               /\ integrityCall.pc = "rejected"
               /\ integrityCall.error.kind = "IntegrityVerificationError"
               /\ integrityCall.error.message[1] = "Function execution failed: "
               /\ integrityCall.proof = None
               /\ integrityCall.submitted = 0
               /\ integrityCall.uploads = 0
          /\ (integrityCall.pc = "rejected" /\ integrityCall.funcOutcome = "none") =>
               /\ integrityCall.executed = 0
               /\ integrityCall.submitted = 0
               /\ integrityCall.uploads = 0)

\* a caller's ProcessIntegrity with a compute provider, a storage manager
\* and a registered function was asked for a name it does not know
C24_Witness ==
  /\ integrityCall # None
  /\ integrity.owner = "caller"
  /\ integrity.processIntegrity.computeProvider # Null
  /\ integrity.processIntegrity.storageManager # Null
  /\ integrity.processIntegrity.registeredFunctions["analyze"] # Null
  /\ integrityCall.functionName = "missing"
  /\ integrityCall.pc = "rejected"
  /\ integrityCall.error.kind = "IntegrityVerificationError"
  /\ integrityCall.executed = 0

\* The proof carries nothing of a TEE.
NoTeeFields(proof) ==
  /\ proof.tee_attestation = Undefined
  /\ proof.tee_provider = UndefinedHash
  /\ proof.tee_job_id = UndefinedHash
  /\ proof.tee_execution_hash = UndefinedHash

\* getTeeAttestation is waiting for the provider or for the timer.
Polling ==
  /\ integrityCall # None
  /\ integrityCall.pc \in {"submit", "status", "result", "attestation", "sleep"}

C30_SdkIntegrityHasNoProviders ==
  (integrity # None /\ integrity.owner = "sdk") =>
    /\ integrity.computeProvider = integrity.config.computeProvider
    /\ integrity.processIntegrity # None =>
         /\ integrity.processIntegrity.computeProvider = Null
         /\ integrity.processIntegrity.storageManager = Null
         /\ integrity.processIntegrity.agentName = SdkStorageBackend(integrity.config)
         /\ integrityCall # None =>
              /\ integrityCall.submitted = 0
              /\ integrityCall.polls = 0
              /\ integrityCall.uploads = 0
              /\ integrityCall.proof # None =>
                   /\ NoTeeFields(integrityCall.proof)
                   /\ integrityCall.proof.ipfs_cid = UndefinedHash

\* an SDK configured with a storage provider and a compute provider ran a
\* registered function: the proof came back without attestation and upload
C30_Witness ==
  /\ integrity # None
  /\ integrity.owner = "sdk"
  /\ integrity.config.computeProvider = "0g-compute"
  /\ integrity.config.storageProvider = "customStorage"
  /\ integrityCall # None
  /\ integrityCall.pc = "returned"
  /\ integrityCall.proof # None
  /\ integrityCall.submitted = 0
  /\ integrityCall.uploads = 0

====
